---- MODULE Spec2Model ----
(***************************************************************************)
(* The esa-matchfinder: an interval tree over the suffix array of a block, *)
(* walked leaf-to-root once per text position (esa_matchfinder.c).         *)
(*                                                                         *)
(* A 64-bit node word is held as its three bit fields,                     *)
(*     [lcp : 6 bits | offset : 29 bits | parent : 29 bits],               *)
(* and every arithmetic operation of the source on a word is written on    *)
(* the fields with the carries the 64-bit operation would produce.         *)
(***************************************************************************)
EXTENDS Integers, Sequences, FiniteSets, TLC

VARIABLES
    block,            \* the caller's input buffer, a function 0..n-1 -> byte
    libsais,          \* what the SA / PLCP library answers for block
    built,            \* what the tree build can leave for block, by schedule
    mf,               \* the session's creation-time fields (ESA_MF_CONTEXT)
    block_size,       \* ESA_MF_CONTEXT.block_size
    position,         \* ESA_MF_CONTEXT.position (-1 stands for (uint64_t)-1)
    sa_parent_link,   \* node array: SA entries, then interval words
    plcp_leaf_link,   \* PLCP values, then leaf links, by text position
    threads,          \* ESA_MF_CONTEXT.threads[]: [start, end) per worker
    prefetch,         \* ESA_MF_CONTEXT.prefetch[4][8]
    call,             \* the name of the last API call
    result,           \* what the last parse / rewind returned
    matches,          \* the records stored, when the last call was find_all_matches
    best,             \* the match returned, when the last call was find_best_match
    parsed_link,      \* history: the node array as the last parse left it
    pass_log,         \* history: match lists of the scan in progress
    last_pass,        \* history: match lists of the last complete scan
    region            \* the parallel region of the tree build, worker by worker

vars == <<block, libsais, built, mf, block_size, position, sa_parent_link,
          plcp_leaf_link, threads, prefetch, call, result, matches, best,
          parsed_link, pass_log, last_pass, region>>

----------------------------------------------------------------------------
(* Bounds of the model *)

MaxLen == 4
MaxThreads == 2

Alphabet == {0, 1}

\* a byte string as a block: byte i of the buffer is s[i + 1]
ZeroBased(s) == [i \in 0..(Len(s) - 1) |-> s[i + 1]]
Bytes(s) == ZeroBased(s)

\* every short block over the alphabet, and the longer blocks "abcde",
\* "abcabc", "aaaaaa", "abababab" and "baabaaab"
Scenarios ==
    {Bytes(<<0, 1, 2, 3, 4>>), Bytes(<<0, 1, 2, 0, 1, 2>>), Bytes(<<0, 0, 0, 0, 0, 0>>),
     Bytes(<<0, 1, 0, 1, 0, 1, 0, 1>>), Bytes(<<1, 0, 0, 1, 0, 0, 0, 1>>),
     Bytes(<<0, 0, 0, 0, 1>>)}
Blocks == UNION {[0..(n - 1) -> Alphabet] : n \in 0..MaxLen} \cup Scenarios
MaxBlockLen == 8
MatchLengths == {<<2, 2>>, <<2, 3>>, <<2, 64>>, <<3, 3>>, <<3, 4>>}

----------------------------------------------------------------------------
(* esa_matchfinder.h and the masks of esa_matchfinder.c *)

ESA_MATCHFINDER_MATCH_BITS == 6
ESA_MATCHFINDER_MAX_BLOCK_SIZE == 2 ^ ((64 - ESA_MATCHFINDER_MATCH_BITS) \div 2)
ESA_MATCHFINDER_MIN_MATCH_LENGTH == 2
ESA_MATCHFINDER_MAX_MATCH_LENGTH == 2 ^ ESA_MATCHFINDER_MATCH_BITS
ESA_MATCHFINDER_NO_ERROR == 0
ESA_MATCHFINDER_BAD_PARAMETER == -1

ESA_MF_NUM_THREADS_MAX == 256
ESA_MF_TOTAL_BITS == 64
ESA_MF_LCP_BITS == ESA_MATCHFINDER_MATCH_BITS
ESA_MF_LCP_MAX == 2 ^ ESA_MF_LCP_BITS - 1
ESA_MF_LCP_SHIFT == ESA_MF_TOTAL_BITS - ESA_MF_LCP_BITS
ESA_MF_OFFSET_BITS == ESA_MF_LCP_SHIFT \div 2
ESA_MF_OFFSET_MAX == 2 ^ ESA_MF_OFFSET_BITS - 1
ESA_MF_OFFSET_SHIFT == ESA_MF_TOTAL_BITS - ESA_MF_LCP_BITS - ESA_MF_OFFSET_BITS
ESA_MF_PARENT_BITS == ESA_MF_OFFSET_SHIFT
ESA_MF_PARENT_MAX == 2 ^ ESA_MF_PARENT_BITS - 1
ESA_MF_STORAGE_PADDING == 64

----------------------------------------------------------------------------
(* 64-bit words as bit fields *)

\* a value below 2^31 as a word: bits 0..28 are the parent field, the bits
\* above them the low end of the offset field
Word(v) ==
    [lcp |-> 0, offset |-> v \div (2 ^ ESA_MF_PARENT_BITS),
     parent |-> v % (2 ^ ESA_MF_PARENT_BITS)]

\* (uint32_t)w
Low32(w) ==
    w.parent + (w.offset % (2 ^ (32 - ESA_MF_OFFSET_SHIFT))) * (2 ^ ESA_MF_OFFSET_SHIFT)

\* a suffix-array entry read back as a number: its lcp and offset bits are 0
U64(w) == w.parent + w.offset * (2 ^ ESA_MF_OFFSET_SHIFT)

\* w & ESA_MF_PARENT_MASK
ParentOf(w) == w.parent

\* w & ESA_MF_OFFSET_MASK, as the field's value
OffsetOf(w) == w.offset

\* w >> ESA_MF_LCP_SHIFT
LcpOf(w) == w.lcp

\* w & ~ESA_MF_OFFSET_MASK
\* a mask that reaches into the lcp field
ClearOffsetMutant(w) == [w EXCEPT !.offset = 0, !.lcp = 0]

ClearOffset(w) == [w EXCEPT !.offset = 0]

\* w + (p << ESA_MF_OFFSET_SHIFT) in 64 bits: a sum that leaves the offset
\* field carries into the lcp field, and a carry out of bit 63 is lost
AddOffset(w, p) ==
    LET s == w.offset + p
    IN  [lcp    |-> (w.lcp + s \div (2 ^ ESA_MF_OFFSET_BITS)) % (2 ^ ESA_MF_LCP_BITS),
         offset |-> s % (2 ^ ESA_MF_OFFSET_BITS),
         parent |-> w.parent]

\* the root sentinel ESA_MF_OFFSET_MASK
RootWord == [lcp |-> 0, offset |-> ESA_MF_OFFSET_MAX, parent |-> 0]

----------------------------------------------------------------------------
(* The suffix-array library: SA sorts the suffixes of the block, PLCP[p] is *)
(* the common prefix of suffix p and the suffix before it in SA.            *)

BlockLen(B) == Cardinality(DOMAIN B)

Least(S) == CHOOSE l \in S : \A m \in S : l <= m

\* the number of bytes the suffixes p and q of the n bytes of B share: the
\* first l at which one of them ends or they differ
CommonPrefixFrom(B, n, p, q) ==
    Least({l \in 0..n : p + l >= n \/ q + l >= n \/ B[p + l] # B[q + l]})

CommonPrefix(B, p, q) == CommonPrefixFrom(B, BlockLen(B), p, q)

\* suffix p sorts before suffix q, given the l bytes they share
SuffixLessAt(B, n, p, q, l) ==
    /\ p # q
    /\ \/ p + l = n
       \/ q + l < n /\ B[p + l] < B[q + l]

SuffixLess(B, n, p, q) == SuffixLessAt(B, n, p, q, CommonPrefixFrom(B, n, p, q))

InsertAt(sorted, k, p) ==
    SubSeq(sorted, 1, k) \o <<p>> \o SubSeq(sorted, k + 1, Len(sorted))

\* suffix p put in its place among the sorted suffixes
InsertSuffix(B, n, sorted, p) ==
    InsertAt(sorted,
             Cardinality({j \in 1..Len(sorted) : SuffixLess(B, n, sorted[j], p)}), p)

\* all n suffixes in lexicographic order, from the sorted first Len(sorted)
RECURSIVE SortSuffixes(_, _, _)
SortSuffixes(B, n, sorted) ==
    IF ~(Len(sorted) < n) THEN sorted
    ELSE SortSuffixes(B, n, InsertSuffix(B, n, sorted, Len(sorted)))

libsais_ctx(B) == ZeroBased(SortSuffixes(B, BlockLen(B), <<>>))

\* the common prefix of suffix p, found at SA[i], and the suffix SA[i - 1]
PlcpAt(B, n, SA, p, i) ==
    IF i = 0 THEN 0 ELSE CommonPrefixFrom(B, n, p, SA[i - 1])

libsais_plcp(B, SA) ==
    [p \in DOMAIN B |->
        PlcpAt(B, BlockLen(B), SA, p, CHOOSE i \in DOMAIN B : SA[i] = p)]

----------------------------------------------------------------------------
(* esa_matchfinder_build_interval_tree: one right-to-left sweep over the    *)
(* suffix-array indices of [omp_block_start, omp_block_start+omp_block_size) *)
(* The sweep state is [link, leaf, stack, next, i]: the node array, the     *)
(* PLCP / leaf-link array, the open intervals (stack[0] of the source is    *)
(* the last element, top_interval), next_interval_index and the loop's i.   *)

Top(stack) == stack[Len(stack)]

\* a candidate one level deeper than the clamped lcp
NextIntervalMutant(next_lcp, next_interval_index) ==
    [Word(next_interval_index) EXCEPT !.lcp = next_lcp + 1]

\* a candidate whose index is one below the next free node index
NextIntervalBelowMutant(next_lcp, next_interval_index) ==
    [Word(next_interval_index - 1) EXCEPT !.lcp = next_lcp]

\* (next_lcp << ESA_MF_LCP_SHIFT) + next_interval_index
NextInterval(next_lcp, next_interval_index) ==
    [Word(next_interval_index) EXCEPT !.lcp = next_lcp]

\* a candidate kept when its lcp equals the top's as well
PushIfDeeperMutant(s, next_lcp) ==
    IF next_lcp >= LcpOf(Top(s.stack))
    THEN [s EXCEPT !.stack = Append(s.stack, NextInterval(next_lcp, s.next)),
                   !.next = s.next - 1]
    ELSE s

\* lines 682-685 and 697-700: the candidate is stored above the top and kept
\* when its lcp is larger than the top's
PushIfDeeper(s, next_lcp) ==
    IF next_lcp > LcpOf(Top(s.stack))
    THEN [s EXCEPT !.stack = Append(s.stack, NextInterval(next_lcp, s.next)),
                   !.next = s.next - 1]
    ELSE s

\* a closed interval linked to itself
ClosedWordMutant(closed_interval, top_interval) ==
    [Word(Low32(closed_interval)) EXCEPT !.lcp = LcpOf(closed_interval)]

\* (uint32_t)top_interval + (closed_interval & ESA_MF_LCP_MASK)
ClosedWord(closed_interval, top_interval) ==
    [Word(Low32(top_interval)) EXCEPT !.lcp = LcpOf(closed_interval)]

\* the loop of lines 689-703
RECURSIVE CloseIntervals(_, _, _)
CloseIntervals(s, next_lcp, top_interval_lcp) ==
    IF ~(next_lcp < top_interval_lcp) THEN s
    ELSE LET closed_interval == Top(s.stack)
             popped == [s EXCEPT !.stack = SubSeq(s.stack, 1, Len(s.stack) - 1)]
             lcp1   == LcpOf(Top(popped.stack))
             pushed == PushIfDeeper(popped, next_lcp)
         IN  CloseIntervals(
                 [pushed EXCEPT !.link[Low32(closed_interval)] =
                                    ClosedWord(closed_interval, Top(pushed.stack))],
                 next_lcp, lcp1)

\* a sweep that never cuts a long common prefix
ClampLcpMutant(plcp, min_match_length, max_match_length) ==
    IF plcp - min_match_length < 0 THEN 0 ELSE plcp - min_match_length

\* lines 674-677
ClampLcp(plcp, min_match_length, max_match_length) ==
    LET next_lcp == plcp - min_match_length
    IN  IF next_lcp < 0 THEN 0
        ELSE IF next_lcp > max_match_length THEN max_match_length
        ELSE next_lcp

\* a loop body that records the leaf link after the pops
BuildStepMutant(s, min_match_length, max_match_length) ==
    LET next_pos == U64(s.link[s.i])
        next_lcp == ClampLcp(s.leaf[next_pos], min_match_length, max_match_length)
        closed == CloseIntervals(PushIfDeeper(s, next_lcp), next_lcp, LcpOf(Top(s.stack)))
    IN  [closed EXCEPT !.leaf[next_pos] = Low32(Top(closed.stack)), !.i = s.i - 1]

\* the body of the loop of lines 668-704 for suffix-array index s.i, and
\* the loop's i -= 1
BuildStep(s, min_match_length, max_match_length) ==
    LET next_pos == U64(s.link[s.i])
        next_lcp == ClampLcp(s.leaf[next_pos], min_match_length, max_match_length)
        top_interval_lcp == LcpOf(Top(s.stack))
        pushed == PushIfDeeper(s, next_lcp)
        linked == [pushed EXCEPT !.leaf[next_pos] = Low32(Top(pushed.stack))]
    IN  [CloseIntervals(linked, next_lcp, top_interval_lcp) EXCEPT !.i = s.i - 1]

RECURSIVE BuildSweep(_, _, _, _)
BuildSweep(s, omp_block_start, min_match_length, max_match_length) ==
    IF ~(s.i >= omp_block_start) THEN s
    ELSE BuildSweep(BuildStep(s, min_match_length, max_match_length),
                    omp_block_start, min_match_length, max_match_length)

\* the arrays and the function's return value, next_interval_index + 1
SweepResult(s) == [link |-> s.link, leaf |-> s.leaf, tree_start |-> s.next + 1]

esa_matchfinder_build_interval_tree(link, leaf, min_match_length, max_match_length, omp_block_start, omp_block_size) ==
    SweepResult(BuildSweep([link |-> link, leaf |-> leaf, stack |-> <<Word(0)>>,
                            next |-> omp_block_start + omp_block_size - 1,
                            i |-> omp_block_start + omp_block_size - 1],
                           omp_block_start, min_match_length - 1,
                           max_match_length - (min_match_length - 1)))

\* a breakpoint taken where PLCP[SA[i]] = min_match_length as well
esa_matchfinder_find_breakpoint_mutant(link, leaf, min_match_length, omp_block_start, omp_block_size) ==
    LET hits == {i \in omp_block_start..(omp_block_start + omp_block_size - 1) :
                    leaf[U64(link[i])] <= min_match_length}
    IN  IF hits = {} THEN -1
        ELSE CHOOSE i \in hits : \A j \in hits : j <= i

\* the largest i of the partition with PLCP[SA[i]] < min_match_length, or -1
esa_matchfinder_find_breakpoint(link, leaf, min_match_length, omp_block_start, omp_block_size) ==
    LET hits == {i \in omp_block_start..(omp_block_start + omp_block_size - 1) :
                    leaf[U64(link[i])] < min_match_length}
    IN  IF hits = {} THEN -1
        ELSE CHOOSE i \in hits : \A j \in hits : j <= i

----------------------------------------------------------------------------
(* esa_matchfinder_build_interval_tree_omp.  The parallel region runs with *)
(* omp_num_threads workers on partitions of omp_block_stride indices; the  *)
(* breakpoints are all found before the barrier, on the arrays as the      *)
(* library left them, and each worker then sweeps its effective range.     *)

NoThreads(num_threads) ==
    [t \in 0..(num_threads - 1) |-> [interval_tree_start |-> 0, interval_tree_end |-> 0]]

\* lines 771-773: the partition of worker omp_thread_num
PartitionStart(omp_thread_num, omp_block_stride) == omp_thread_num * omp_block_stride

PartitionSize(omp_thread_num, omp_num_threads, omp_block_stride, n) ==
    IF omp_thread_num < omp_num_threads - 1
    THEN omp_block_stride
    ELSE n - PartitionStart(omp_thread_num, omp_block_stride)

\* lines 790-792
Breakpoints(link, leaf, min_match_length, n, omp_num_threads, omp_block_stride) ==
    [t \in 0..(omp_num_threads - 1) |->
        IF t < omp_num_threads - 1
        THEN esa_matchfinder_find_breakpoint(link, leaf, min_match_length,
                 PartitionStart(t, omp_block_stride),
                 PartitionSize(t, omp_num_threads, omp_block_stride, n))
        ELSE n]

\* lines 801-806: the breakpoint of the nearest lower worker that has one
EffectiveStart(breakpoints, omp_thread_num) ==
    LET lower == {t \in 0..(omp_thread_num - 1) : breakpoints[t] # -1}
    IN  IF lower = {} THEN 0
        ELSE breakpoints[CHOOSE t \in lower : \A u \in lower : u <= t]

\* lines 777-778 and 810-811: the worker's range recorded with the arrays r
\* its sweep returned
Swept(b, omp_thread_num, omp_block_end, r) ==
    [link |-> r.link, leaf |-> r.leaf,
     threads |-> [b.threads EXCEPT ![omp_thread_num] =
                     [interval_tree_start |-> r.tree_start,
                      interval_tree_end   |-> omp_block_end]]]

\* lines 798-819 for one worker, on the state b = [link, leaf, threads]
WorkerBuild(b, breakpoints, omp_thread_num, min_match_length, max_match_length) ==
    LET omp_block_end   == breakpoints[omp_thread_num]
        omp_block_start == EffectiveStart(breakpoints, omp_thread_num)
    IN  IF omp_block_end # -1 /\ omp_block_start < omp_block_end
        THEN Swept(b, omp_thread_num, omp_block_end,
                   esa_matchfinder_build_interval_tree(b.link, b.leaf,
                       min_match_length, max_match_length,
                       omp_block_start, omp_block_end - omp_block_start))
        ELSE b

\* the workers' sweeps after the barrier, taken in the order given
RECURSIVE WorkersBuild(_, _, _, _, _)
WorkersBuild(b, breakpoints, order, min_match_length, max_match_length) ==
    IF order = <<>> THEN b
    ELSE WorkersBuild(
             WorkerBuild(b, breakpoints, Head(order), min_match_length, max_match_length),
             breakpoints, Tail(order), min_match_length, max_match_length)

\* the orders in which omp_num_threads workers can finish
WorkerOrders(omp_num_threads) ==
    {o \in [1..omp_num_threads -> 0..(omp_num_threads - 1)] :
        \A i, j \in 1..omp_num_threads : i # j => o[i] # o[j]}

\* a root word whose offset field is 0
WithRootMutant(b) == [b EXCEPT !.link[0] = Word(0)]

\* lines 825-827: the root sentinel
WithRoot(b) == [b EXCEPT !.link[0] = RootWord]

\* lines 775-822 for a team of omp_num_threads, on b = [link, leaf, threads]
TeamBuild(b, min_match_length, max_match_length, n, omp_num_threads, omp_block_stride, order) ==
    IF omp_num_threads = 1
    THEN Swept(b, 0, n,
               esa_matchfinder_build_interval_tree(b.link, b.leaf,
                   min_match_length, max_match_length, 0, n))
    ELSE WorkersBuild(b,
             Breakpoints(b.link, b.leaf, min_match_length, n,
                         omp_num_threads, omp_block_stride),
             order, min_match_length, max_match_length)

esa_matchfinder_build_interval_tree_omp(link, leaf, min_match_length, max_match_length, n, num_threads, omp_num_threads, omp_block_stride, order) ==
    WithRoot(TeamBuild([link |-> link, leaf |-> leaf, threads |-> NoThreads(num_threads)],
                       min_match_length, max_match_length, n,
                       omp_num_threads, omp_block_stride, order))

----------------------------------------------------------------------------
(* esa_matchfinder_create / esa_matchfinder_create_omp / alloc_ctx *)

\* the bound on max_match_length taken from ESA_MATCHFINDER_MAX_MATCH_LENGTH
CreateAcceptsMutant(max_block_size, min_match_length, max_match_length, num_threads) ==
    ~ \/ max_block_size < 0
      \/ max_block_size > ESA_MATCHFINDER_MAX_BLOCK_SIZE
      \/ min_match_length < ESA_MATCHFINDER_MIN_MATCH_LENGTH
      \/ max_match_length > ESA_MATCHFINDER_MAX_MATCH_LENGTH + min_match_length - 1
      \/ max_match_length < min_match_length
      \/ num_threads < 0

\* the parameter check of lines 848-853
CreateAccepts(max_block_size, min_match_length, max_match_length, num_threads) ==
    ~ \/ max_block_size < 0
      \/ max_block_size > ESA_MATCHFINDER_MAX_BLOCK_SIZE
      \/ min_match_length < ESA_MATCHFINDER_MIN_MATCH_LENGTH
      \/ max_match_length > ESA_MF_LCP_MAX + min_match_length - 1
      \/ max_match_length < min_match_length
      \/ num_threads < 0

\* a block size kept as given
PadUpMutant(x) == x

\* (x + ESA_MF_STORAGE_PADDING - 1) & (-ESA_MF_STORAGE_PADDING)
PadUp(x) ==
    ((x + ESA_MF_STORAGE_PADDING - 1) \div ESA_MF_STORAGE_PADDING) * ESA_MF_STORAGE_PADDING

\* lines 487-521: the fields of the context the model reads; asked is not a
\* field of the context, it remembers the max_block_size create was given
esa_matchfinder_alloc_ctx(max_block_size, min_match_length, max_match_length, num_threads) ==
    [max_block_size   |-> PadUp(max_block_size),
     asked            |-> max_block_size,
     min_match_length |-> min_match_length,
     max_match_length |-> max_match_length,
     min_match_length_minus_1 |-> min_match_length - 1,
     num_threads      |-> IF num_threads < ESA_MF_NUM_THREADS_MAX
                          THEN num_threads ELSE ESA_MF_NUM_THREADS_MAX]

----------------------------------------------------------------------------
(* The factorization walks *)

\* a match value without the min_match_length - 1 base
MatchOfMutant(min_match_length, interval) ==
    [lo |-> LcpOf(interval), hi |-> OffsetOf(interval)]

\* min_match_length + (interval >> ESA_MF_LCP_SHIFT)
\*     + ((interval & ESA_MF_OFFSET_MASK) << (32 - ESA_MF_OFFSET_SHIFT)):
\* the 64-bit value as its two 32-bit halves
MatchOf(min_match_length, interval) ==
    [lo |-> min_match_length + LcpOf(interval), hi |-> OffsetOf(interval)]

\* every stamped node kept
MatchGreaterMutant(match, best_match) == match.hi # 0

\* the offsets alone compared, an equal one kept
MatchNotLessMutant(match, best_match) == match.hi >= best_match.hi

\* match > best_match on the 64-bit values
MatchGreater(match, best_match) ==
    \/ match.hi > best_match.hi
    \/ match.hi = best_match.hi /\ match.lo > best_match.lo

\* the record stored through next_match
Record(match) == [length |-> match.lo, offset |-> match.hi]

\* a stamp one position ahead
StampMutant(interval, pos) == AddOffset(ClearOffset(interval), pos + 1)

\* (interval & ~ESA_MF_OFFSET_MASK) + new_offset
Stamp(interval, pos) == AddOffset(ClearOffset(interval), pos)

\* the body of the loop of lines 1002-1024 on w = [link, reference,
\* best_match, out]; out holds the records kept so far
FindAllStep(w, min_match_length, pos) ==
    LET interval == w.link[w.reference]
        match    == MatchOf(min_match_length, interval)
    IN  [link       |-> [w.link EXCEPT ![w.reference] = Stamp(interval, pos)],
         reference  |-> ParentOf(interval),
         best_match |-> match,
         out        |-> IF MatchGreater(match, w.best_match)
                        THEN Append(w.out, Record(match)) ELSE w.out]

\* the loop of lines 1002-1024
RECURSIVE FindAllWalk(_, _, _)
FindAllWalk(w, min_match_length, pos) ==
    IF w.reference = 0 THEN [link |-> w.link, matches |-> w.out]
    ELSE FindAllWalk(FindAllStep(w, min_match_length, pos), min_match_length, pos)

\* lines 997-1026
FindAllAt(link, leaf, min_match_length, pos) ==
    FindAllWalk([link |-> link, reference |-> leaf[pos],
                 best_match |-> [lo |-> ESA_MATCHFINDER_MAX_MATCH_LENGTH, hi |-> 0],
                 out |-> <<>>],
                min_match_length, pos)

\* the body of the loop of lines 1055-1065 on w = [link, reference, best_match]
FindBestStep(w, min_match_length, pos) ==
    LET interval == w.link[w.reference]
        match    == IF OffsetOf(interval) # 0
                    THEN MatchOf(min_match_length, interval) ELSE w.best_match
    IN  [link       |-> [w.link EXCEPT ![w.reference] = Stamp(interval, pos)],
         reference  |-> ParentOf(interval),
         best_match |-> IF w.best_match = [lo |-> 0, hi |-> 0]
                        THEN match ELSE w.best_match]

\* the loop of lines 1055-1065
RECURSIVE FindBestWalk(_, _, _)
FindBestWalk(w, min_match_length, pos) ==
    IF w.reference = 0 THEN [link |-> w.link, best |-> Record(w.best_match)]
    ELSE FindBestWalk(FindBestStep(w, min_match_length, pos), min_match_length, pos)

\* lines 1050-1083
FindBestAt(link, leaf, min_match_length, pos) ==
    FindBestWalk([link |-> link, reference |-> leaf[pos],
                  best_match |-> [lo |-> 0, hi |-> 0]],
                 min_match_length, pos)

\* a walk that adds the new offset to the old one
RECURSIVE AdvanceWalkMutant(_, _, _)
AdvanceWalkMutant(link, reference, pos) ==
    IF reference = 0 THEN link
    ELSE AdvanceWalkMutant([link EXCEPT ![reference] = AddOffset(link[reference], pos)],
                           ParentOf(link[reference]), pos)

\* the loop of lines 1114-1120
RECURSIVE AdvanceWalk(_, _, _)
AdvanceWalk(link, reference, pos) ==
    IF reference = 0 THEN link
    ELSE AdvanceWalk([link EXCEPT ![reference] = Stamp(link[reference], pos)],
                     ParentOf(link[reference]), pos)

\* the loop of lines 1097-1121
RECURSIVE AdvanceLoop(_, _, _, _)
AdvanceLoop(link, leaf, pos, target_position) ==
    IF ~(pos < target_position) THEN link
    ELSE AdvanceLoop(AdvanceWalk(link, leaf[pos], pos), leaf, pos + 1, target_position)

\* a reset that stops one word short
esa_matchfinder_reset_interval_tree_mutant(link, omp_block_start, omp_block_size) ==
    [i \in DOMAIN link |->
        IF omp_block_start <= i /\ i < omp_block_start + omp_block_size - 1
        THEN ClearOffset(link[i]) ELSE link[i]]

\* esa_matchfinder_reset_interval_tree over [start, start + size)
esa_matchfinder_reset_interval_tree(link, omp_block_start, omp_block_size) ==
    [i \in DOMAIN link |->
        IF omp_block_start <= i /\ i < omp_block_start + omp_block_size
        THEN ClearOffset(link[i]) ELSE link[i]]

\* lines 949-961: every worker's recorded range is cleared
RECURSIVE ResetRanges(_, _, _, _)
ResetRanges(link, thr, thread, num_threads) ==
    IF ~(thread < num_threads) THEN link
    ELSE ResetRanges(
             IF thr[thread].interval_tree_start < thr[thread].interval_tree_end
             THEN esa_matchfinder_reset_interval_tree(link,
                      thr[thread].interval_tree_start,
                      thr[thread].interval_tree_end - thr[thread].interval_tree_start)
             ELSE link,
             thr, thread + 1, num_threads)

\* the loops of lines 625-630 and 639-644: stamp upwards while the offset is 0
RECURSIVE FastForwardWalk(_, _, _)
FastForwardWalk(link, reference, pos) ==
    LET interval == link[reference]
    IN  IF OffsetOf(interval) # 0 THEN link
        ELSE FastForwardWalk([link EXCEPT ![reference] = AddOffset(interval, pos)],
                             Low32(interval), pos)

\* lines 614-645: positions target_position - 1 down to 1
RECURSIVE FastForwardLoop(_, _, _)
FastForwardLoop(link, leaf, pos) ==
    IF ~(pos > 0) THEN link
    ELSE FastForwardLoop(FastForwardWalk(link, leaf[pos], pos), leaf, pos - 1)

\* a replay that starts at the target itself
esa_matchfinder_fast_forward_mutant(link, leaf, target_position) ==
    FastForwardLoop(link, leaf, target_position)

esa_matchfinder_fast_forward(link, leaf, target_position) ==
    FastForwardLoop(link, leaf, target_position - 1)

----------------------------------------------------------------------------
(* The session *)

\* the rows of ESA_MF_CONTEXT.prefetch are picked by position & 3
prefetch_distance == 4

\* memset(matchfinder_ctx->prefetch, 0, sizeof(matchfinder_ctx->prefetch))
NoPrefetch == [row \in 0..(prefetch_distance - 1) |-> [k \in 0..7 |-> 0]]

\* a position one too far
esa_matchfinder_set_position_mutant(pos) == [position |-> pos + 1, prefetch |-> NoPrefetch]

\* lines 479-483: the position and the prefetch table set_position leaves
esa_matchfinder_set_position(pos) == [position |-> pos, prefetch |-> NoPrefetch]

\* the nine prefetch lines of find_all_matches (985-993), find_best_match
\* (1039-1047) and advance (1099-1107) at position pos: the row moves one
\* step towards the root and takes the leaf link 8 * prefetch_distance
\* ahead, which past the block is the zeroed padding of line 880
PrefetchStep(pf, link, leaf, pos, n) ==
    [pf EXCEPT ![pos % prefetch_distance] =
        [k \in 0..7 |->
            IF k < 6 THEN ParentOf(link[pf[pos % prefetch_distance][k + 1]])
            ELSE IF k = 6
            THEN IF pos + 8 * prefetch_distance < n
                 THEN leaf[pos + 8 * prefetch_distance] ELSE 0
            ELSE pf[pos % prefetch_distance][7]]]

\* the prefetch table after the loop of lines 1095-1121
RECURSIVE PrefetchLoop(_, _, _, _, _, _)
PrefetchLoop(pf, link, leaf, pos, target_position, n) ==
    IF ~(pos < target_position) THEN pf
    ELSE PrefetchLoop(PrefetchStep(pf, link, leaf, pos, n), link, leaf,
                      pos + 1, target_position, n)

\* lines 931-934
esa_matchfinder_get_position == position

\* the NULL handle
NullCtx == [null |-> TRUE]

NoPass == [full |-> FALSE, lists |-> <<>>]
NewPass == [clean |-> TRUE, lists |-> <<>>]
BrokenPass == [clean |-> FALSE, lists |-> <<>>]
NoMatch == [length |-> 0, offset |-> 0]

\* no parallel region is being followed
NoRegion == [pc |-> <<>>]

OracleWith(B, SA) == [SA |-> SA, PLCP |-> libsais_plcp(B, SA)]

\* lines 883-903: the suffix array, then the PLCP array computed from it
Oracle(B) == OracleWith(B, libsais_ctx(B))

\* the suffix array widened to 64-bit words in the node array; word 0 is
\* there for a block of no bytes too
WidenedSA(SA, n) ==
    [i \in 0..(IF n > 0 THEN n - 1 ELSE 0) |-> IF i < n THEN Word(SA[i]) ELSE Word(0)]

\* the team the parallel region of line 758 runs with
TeamSizes(num_threads) == IF num_threads > 1 THEN 1..num_threads ELSE {1}

\* (n / omp_num_threads) & (-16), the grid left open
Strides(n, omp_num_threads) ==
    IF omp_num_threads = 1 THEN {n} ELSE 0..(n \div omp_num_threads)

\* lines 909-922 on the library's answer, for every team, grid and order of
\* the workers
Builds(esa, n, ctx) ==
    {esa_matchfinder_build_interval_tree_omp(
         WidenedSA(esa.SA, n), esa.PLCP, ctx.min_match_length, ctx.max_match_length,
         n, ctx.num_threads, schedule[1], schedule[2], schedule[3]) :
     schedule \in UNION {UNION {{<<team, stride, order>> : order \in WorkerOrders(team)} :
                                 stride \in Strides(n, team)} :
                         team \in TeamSizes(ctx.num_threads)}}

\* a session as esa_matchfinder_create_omp returns it, and the buffer the
\* caller is going to parse
InitWith(blocks, sizes, lengths, workers) ==
    /\ block \in blocks
    /\ libsais = Oracle(block)
    /\ \E max_block_size \in sizes, ml \in lengths, num_threads \in workers :
          /\ CreateAccepts(max_block_size, ml[1], ml[2], num_threads)
          /\ mf = esa_matchfinder_alloc_ctx(max_block_size, ml[1], ml[2], num_threads)
    /\ built = Builds(libsais, BlockLen(block), mf)
    /\ block_size = -1
    /\ position = -1
    /\ sa_parent_link = <<>>
    /\ plcp_leaf_link = <<>>
    /\ threads = <<>>
    /\ prefetch = esa_matchfinder_set_position(-1).prefetch
    /\ call = "create"
    /\ result = ESA_MATCHFINDER_NO_ERROR
    /\ matches = <<>>
    /\ best = NoMatch
    /\ parsed_link = <<>>
    /\ pass_log = BrokenPass
    /\ last_pass = NoPass

\* sessions created for blocks of up to MaxBlockLen bytes, and sessions
\* created for the empty block alone
Init == InitWith(Blocks, {0, MaxBlockLen}, MatchLengths, 1..MaxThreads) /\ region = NoRegion

\* esa_matchfinder_parse(mf, block, n)
Parse(n) ==
        /\ call' = "parse"
        /\ IF mf = NullCtx \/ n < 0 \/ n > mf.max_block_size
           THEN /\ result' = ESA_MATCHFINDER_BAD_PARAMETER
                /\ UNCHANGED <<block_size, position, sa_parent_link, plcp_leaf_link,
                               threads, prefetch, parsed_link, pass_log, last_pass>>
           ELSE \E b \in built :
                    /\ block_size' = n
                    /\ sa_parent_link' = b.link
                    /\ plcp_leaf_link' = b.leaf
                    /\ threads' = b.threads
                    /\ position' = esa_matchfinder_set_position(0).position
                    /\ prefetch' = esa_matchfinder_set_position(0).prefetch
                    /\ result' = ESA_MATCHFINDER_NO_ERROR
                    /\ parsed_link' = b.link
                    /\ pass_log' = NewPass
                    /\ last_pass' = NoPass
        /\ matches' = <<>>
        /\ best' = NoMatch
        /\ UNCHANGED <<region, block, libsais, built, mf>>

\* the contract of find_* / advance: a parsed block and a position inside it
CanConsume(count) ==
    /\ position >= 0
    /\ count >= 1
    /\ position + count <= block_size

\* esa_matchfinder_find_all_matches
FindAllMatches ==
    /\ CanConsume(1)
    /\ LET r == FindAllAt(sa_parent_link, plcp_leaf_link,
                          mf.min_match_length_minus_1, position)
       IN  /\ sa_parent_link' = r.link
           /\ matches' = r.matches
           /\ pass_log' = IF pass_log.clean
                          THEN [pass_log EXCEPT !.lists = Append(@, r.matches)]
                          ELSE pass_log
    /\ position' = position + 1
    /\ prefetch' = PrefetchStep(prefetch, sa_parent_link, plcp_leaf_link,
                                position, block_size)
    /\ call' = "find_all_matches"
    /\ best' = NoMatch
    /\ UNCHANGED <<region, block, libsais, built, mf, block_size, plcp_leaf_link, threads,
                   result, parsed_link, last_pass>>

\* esa_matchfinder_find_best_match
FindBestMatch ==
    /\ CanConsume(1)
    /\ LET r == FindBestAt(sa_parent_link, plcp_leaf_link,
                           mf.min_match_length_minus_1, position)
       IN  /\ sa_parent_link' = r.link
           /\ best' = r.best
    /\ position' = position + 1
    /\ prefetch' = PrefetchStep(prefetch, sa_parent_link, plcp_leaf_link,
                                position, block_size)
    /\ call' = "find_best_match"
    /\ matches' = <<>>
    /\ pass_log' = BrokenPass
    /\ last_pass' = NoPass
    /\ UNCHANGED <<region, block, libsais, built, mf, block_size, plcp_leaf_link, threads,
                   result, parsed_link>>

\* esa_matchfinder_advance
Advance(count) ==
    /\ CanConsume(count)
    /\ position' = position + count
    /\ sa_parent_link' = AdvanceLoop(sa_parent_link, plcp_leaf_link,
                                     position, position + count)
    /\ prefetch' = PrefetchLoop(prefetch, sa_parent_link, plcp_leaf_link,
                                position, position + count, block_size)
    /\ call' = "advance"
    /\ matches' = <<>>
    /\ best' = NoMatch
    /\ pass_log' = BrokenPass
    /\ last_pass' = NoPass
    /\ UNCHANGED <<region, block, libsais, built, mf, block_size, plcp_leaf_link, threads,
                   result, parsed_link>>

\* lines 945-970: the node array rewind leaves
RewindLink(link, leaf, thr, num_threads, current, target) ==
    IF current = target THEN link
    ELSE LET cleared == IF current # 0
                        THEN ResetRanges(link, thr, 0, num_threads) ELSE link
         IN  IF target > 0
             THEN esa_matchfinder_fast_forward(cleared, leaf, target)
             ELSE cleared

\* a check that lets the position before the block through
RewindRejectsMutant(target) == mf = NullCtx \/ target < -1 \/ target >= block_size

\* a check that lets the position through that equals block_size
RewindRejectsPastEndMutant(target) == mf = NullCtx \/ target < block_size \/ target > block_size

\* the parameter check of line 940
RewindRejects(target) == mf = NullCtx \/ target < 0 \/ target >= block_size

\* esa_matchfinder_rewind
Rewind(target) ==
    /\ call' = "rewind"
    /\ IF RewindRejects(target)
       THEN /\ result' = ESA_MATCHFINDER_BAD_PARAMETER
            /\ UNCHANGED <<position, prefetch, sa_parent_link, pass_log, last_pass>>
       ELSE /\ result' = ESA_MATCHFINDER_NO_ERROR
            /\ position' = IF position # target
                           THEN esa_matchfinder_set_position(target).position
                           ELSE position
            /\ prefetch' = IF position # target
                           THEN esa_matchfinder_set_position(target).prefetch
                           ELSE prefetch
            /\ sa_parent_link' = RewindLink(sa_parent_link, plcp_leaf_link, threads,
                                            mf.num_threads, position, target)
            /\ pass_log' = IF target = 0 THEN NewPass ELSE BrokenPass
            /\ last_pass' = IF target = 0 /\ pass_log.clean
                               /\ Len(pass_log.lists) = block_size
                            THEN [full |-> TRUE, lists |-> pass_log.lists]
                            ELSE NoPass
    /\ matches' = <<>>
    /\ best' = NoMatch
    /\ UNCHANGED <<region, block, libsais, built, mf, block_size, plcp_leaf_link, threads,
                   parsed_link>>

\* the length of a run of a single byte, long enough for a common prefix
\* above ESA_MATCHFINDER_MAX_MATCH_LENGTH
LongRun == 66

\* the positions asked of rewind: before the block, inside it, and past
\* the end of the longest block
RewindTargets == (-1..MaxBlockLen) \cup {LongRun}

Next ==
    \/ \E n \in {-1, BlockLen(block)} : Parse(n)
    \/ FindAllMatches
    \/ FindBestMatch
    \/ \E count \in 1..MaxBlockLen : Advance(count)
    \/ \E target \in RewindTargets : Rewind(target)

Spec == Init /\ [][Next]_vars

\* the parameters handed to esa_matchfinder_create and
\* esa_matchfinder_create_omp: <<max_block_size, min_match_length,
\* max_match_length, num_threads>>, inside and outside what is allowed
CreateInputs ==
    {-1, 0, 1, MaxBlockLen, ESA_MATCHFINDER_MAX_BLOCK_SIZE, ESA_MATCHFINDER_MAX_BLOCK_SIZE + 1}
        \X (1..3)
        \X ((1..3) \cup ((ESA_MATCHFINDER_MAX_MATCH_LENGTH - 1)..(ESA_MATCHFINDER_MAX_MATCH_LENGTH + 2)))
        \X (-1..MaxThreads)

\* lines 832-841 and 848-859: NULL, or the session alloc_ctx returns, for
\* the buffer the caller holds
Created(max_block_size, min_match_length, max_match_length, num_threads) ==
    /\ mf = NullCtx
    /\ mf' = IF CreateAccepts(max_block_size, min_match_length, max_match_length, num_threads)
             THEN esa_matchfinder_alloc_ctx(max_block_size, min_match_length,
                                            max_match_length, num_threads)
             ELSE NullCtx
    /\ built' = IF mf' = NullCtx THEN {} ELSE Builds(libsais, BlockLen(block), mf')
    /\ prefetch' = IF mf' = NullCtx THEN prefetch
                   ELSE esa_matchfinder_set_position(-1).prefetch
    /\ UNCHANGED <<region, block, libsais, block_size, position, sa_parent_link, plcp_leaf_link,
                   threads, result, matches, best, parsed_link, pass_log, last_pass>>

\* esa_matchfinder_create
Create(max_block_size, min_match_length, max_match_length) ==
    /\ call' = "create"
    /\ Created(max_block_size, min_match_length, max_match_length, 1)

\* esa_matchfinder_create_omp; omp_get_max_threads() is any team size
CreateOmp(max_block_size, min_match_length, max_match_length, num_threads) ==
    /\ call' = "create_omp"
    /\ \E omp_max_threads \in 1..MaxThreads :
          Created(max_block_size, min_match_length, max_match_length,
                  IF num_threads = 0 THEN omp_max_threads ELSE num_threads)

\* a caller that holds the block "aaaab" and no session yet
InitCreate ==
    /\ block = Bytes(<<0, 0, 0, 0, 1>>)
    /\ libsais = Oracle(block)
    /\ mf = NullCtx
    /\ built = {}
    /\ block_size = -1
    /\ position = -1
    /\ sa_parent_link = <<>>
    /\ plcp_leaf_link = <<>>
    /\ threads = <<>>
    /\ prefetch = NoPrefetch
    /\ call = "none"
    /\ result = ESA_MATCHFINDER_NO_ERROR
    /\ matches = <<>>
    /\ best = NoMatch
    /\ parsed_link = <<>>
    /\ pass_log = BrokenPass
    /\ last_pass = NoPass
    /\ region = NoRegion

NextCreate ==
    \/ \E p \in CreateInputs : Create(p[1], p[2], p[3])
    \/ \E p \in CreateInputs : CreateOmp(p[1], p[2], p[3], p[4])
    \/ Next

SpecCreate == InitCreate /\ [][NextCreate]_vars

\* sessions on one run of a single byte, long enough for a common prefix
\* above ESA_MATCHFINDER_MAX_MATCH_LENGTH
LongBlocks == {[i \in 0..(n - 1) |-> 0] : n \in {LongRun}}
LongMatchLengths == {<<2, 64>>, <<3, 64>>, <<3, 65>>}

InitLong == InitWith(LongBlocks, {LongRun}, LongMatchLengths, {1}) /\ region = NoRegion

SpecLong == InitLong /\ [][Next]_vars

----------------------------------------------------------------------------
(* What the claims speak of *)

\* the position the last find_* call was made at
At == position - 1

\* the bytes B[q .. q+len) and B[p .. p+len) exist and are equal
SameBytes(q, p, len) == CommonPrefix(block, q, p) >= len

\* the longest match length the session reports for sources q and p
Reported(q, p) ==
    LET l == CommonPrefix(block, q, p)
    IN  IF l > mf.max_match_length THEN mf.max_match_length ELSE l

FoundAll == call = "find_all_matches"

\* C1 as stated: every record (length, offset) stored at position p has
\* 1 <= offset <= p and the length bytes offset back from p equal those at p.
C1_OffsetIsDistanceBack ==
    FoundAll =>
        \A i \in 1..Len(matches) :
            /\ 1 <= matches[i].offset
            /\ matches[i].offset <= At
            /\ SameBytes(At - matches[i].offset, At, matches[i].length)

\* C1 as amended: the offset of a record is the stamped earlier position
\* itself: a record with a non-zero offset q has 1 <= q < p and the length
\* bytes at q equal those at p; a record with offset 0 has a length above
\* ESA_MATCHFINDER_MAX_MATCH_LENGTH.
C1_OffsetIsStampedPosition ==
    FoundAll =>
        \A i \in 1..Len(matches) :
            IF matches[i].offset = 0
            THEN matches[i].length > ESA_MATCHFINDER_MAX_MATCH_LENGTH
            ELSE /\ 1 <= matches[i].offset
                 /\ matches[i].offset < At
                 /\ SameBytes(matches[i].offset, At, matches[i].length)

\* a record was stored whose offset is not the distance back to its source
C1_Witness ==
    /\ FoundAll
    /\ \E i \in 1..Len(matches) :
          /\ SameBytes(matches[i].offset, At, matches[i].length)
          /\ ~SameBytes(At - matches[i].offset, At, matches[i].length)

\* C2 as stated: if an earlier position q >= 0 shares a prefix of length
\* L in [min, max] with p, a record of length >= L is stored whose source
\* shares a prefix of length >= L with p.  (It is enough to ask it of the
\* largest such L of every q.)
C2_OptimalityFromZero ==
    FoundAll =>
        \A q \in 0..(At - 1) :
            Reported(q, At) >= mf.min_match_length =>
                \E i \in 1..Len(matches) :
                    /\ matches[i].length >= Reported(q, At)
                    /\ SameBytes(matches[i].offset, At, Reported(q, At))

\* C2 as amended: the same for the earlier positions q >= 1, with a source
\* q' >= 1: position 0 is never a source.
C2_OptimalityFromOne ==
    FoundAll =>
        \A q \in 1..(At - 1) :
            Reported(q, At) >= mf.min_match_length =>
                \E i \in 1..Len(matches) :
                    /\ matches[i].length >= Reported(q, At)
                    /\ matches[i].offset >= 1
                    /\ SameBytes(matches[i].offset, At, Reported(q, At))

\* a call at which an earlier position q >= 1 shares min_match_length bytes
\* or more, and one at which a prefix is cut to max_match_length
C2_Witness ==
    /\ FoundAll
    /\ \E q \in 1..(At - 1) :
          /\ Reported(q, At) >= mf.min_match_length
          /\ CommonPrefix(block, q, At) > mf.max_match_length

\* C3: the records of one call are strictly decreasing in length and
\* strictly increasing in offset from the beginning of the block.
C3_DecreasingLengthIncreasingOffset ==
    FoundAll =>
        \A i \in 1..(Len(matches) - 1) :
            /\ matches[i].length > matches[i + 1].length
            /\ matches[i].offset < matches[i + 1].offset

\* a call that stored two records or more, outside a first-to-last scan
C3_Witness ==
    /\ FoundAll
    /\ Len(matches) >= 2
    /\ ~pass_log.clean

\* C4 as stated: the records of one call are strictly decreasing in length
\* and strictly decreasing in stamped source position.
C4_DecreasingSource ==
    FoundAll =>
        \A i \in 1..(Len(matches) - 1) :
            /\ matches[i].length > matches[i + 1].length
            /\ matches[i].offset > matches[i + 1].offset

\* C4 as amended: strictly decreasing in length and strictly increasing in
\* stamped source position, so the distance back from the current position
\* is strictly decreasing along the output.
C4_DecreasingDistance ==
    FoundAll =>
        \A i \in 1..(Len(matches) - 1) :
            /\ matches[i].length > matches[i + 1].length
            /\ At - matches[i].offset > At - matches[i + 1].offset

\* a call that stored two records whose sources are both earlier positions
C4_Witness ==
    /\ FoundAll
    /\ Len(matches) >= 2
    /\ \A i \in 1..Len(matches) : 1 <= matches[i].offset /\ matches[i].offset < At

\* the node array esa_matchfinder_parse followed by esa_matchfinder_advance(k)
\* leaves
ParseThenAdvance(k) == AdvanceLoop(parsed_link, plcp_leaf_link, 0, k)

\* C6: after parse, any consumption and an accepted rewind(k'), the node
\* array is identical to the one parse followed by advance(k') leaves.
C6_RewindEquivalence ==
    (call = "rewind" /\ result = ESA_MATCHFINDER_NO_ERROR) =>
        sa_parent_link = ParseThenAdvance(position)

\* an accepted rewind to a position k' >= 2 of a block whose tree holds
\* stamps
C6_Witness ==
    /\ call = "rewind"
    /\ result = ESA_MATCHFINDER_NO_ERROR
    /\ position >= 2
    /\ sa_parent_link # parsed_link
    /\ sa_parent_link = ParseThenAdvance(position)

\* C7: two scans of find_all_matches over the whole block, each started at
\* position 0 by parse or rewind(0), produce the same match lists position
\* by position.
C7_PassRepeatability ==
    (last_pass.full /\ pass_log.clean) =>
        \A i \in 1..Len(pass_log.lists) : pass_log.lists[i] = last_pass.lists[i]

\* the second scan is complete and some position has records
C7_Witness ==
    /\ last_pass.full
    /\ pass_log.clean
    /\ block_size >= 1
    /\ Len(pass_log.lists) = block_size
    /\ \E i \in 1..Len(pass_log.lists) : pass_log.lists[i] # <<>>

\* the lcp fields on the path from a node to the root; a path longer than
\* the node array is cut
RECURSIVE LcpChain(_, _, _)
LcpChain(link, reference, fuel) ==
    IF reference = 0 THEN <<>>
    ELSE IF fuel = 0 THEN <<-1>>
    ELSE <<LcpOf(link[reference])>>
             \o LcpChain(link, ParentOf(link[reference]), fuel - 1)

\* the match lists of find_all_matches at pos, pos + 1, ..., n - 1
RECURSIVE FullScan(_, _, _, _, _)
FullScan(link, leaf, min_match_length, pos, n) ==
    IF ~(pos < n) THEN <<>>
    ELSE LET r == FindAllAt(link, leaf, min_match_length, pos)
         IN  <<r.matches>> \o FullScan(r.link, leaf, min_match_length, pos + 1, n)

\* the build of the same block by a team of one
SerialBuild ==
    esa_matchfinder_build_interval_tree_omp(
        WidenedSA(libsais.SA, BlockLen(block)), libsais.PLCP,
        mf.min_match_length, mf.max_match_length, BlockLen(block),
        mf.num_threads, 1, BlockLen(block), <<0>>)

\* C8: whatever the team, the grid and the order of the workers, the tree
\* parse builds has, for every text position, the same lcp values from leaf
\* to root as the tree built by one worker, and the same match lists.
C8_ParallelEquivalence ==
    (call = "parse" /\ result = ESA_MATCHFINDER_NO_ERROR) =>
        /\ \A p \in 0..(block_size - 1) :
              LcpChain(sa_parent_link, plcp_leaf_link[p], block_size + 1)
                  = LcpChain(SerialBuild.link, SerialBuild.leaf[p], block_size + 1)
        /\ FullScan(sa_parent_link, plcp_leaf_link,
                    mf.min_match_length_minus_1, 0, block_size)
               = FullScan(SerialBuild.link, SerialBuild.leaf,
                          mf.min_match_length_minus_1, 0, block_size)

\* a parse in which two workers built a range each and the node array is
\* not the one a single worker lays out
C8_Witness ==
    /\ call = "parse"
    /\ result = ESA_MATCHFINDER_NO_ERROR
    /\ mf.num_threads >= 2
    /\ threads[0].interval_tree_start < threads[0].interval_tree_end
    /\ threads[1].interval_tree_start < threads[1].interval_tree_end
    /\ sa_parent_link # SerialBuild.link

\* C9: from parse on, find_*, advance and rewind change no lcp field and no
\* parent field of the node array.
C9_OffsetFieldIsolation ==
    position >= 0 =>
        \A i \in DOMAIN sa_parent_link :
            /\ LcpOf(sa_parent_link[i]) = LcpOf(parsed_link[i])
            /\ ParentOf(sa_parent_link[i]) = ParentOf(parsed_link[i])

\* a rewind left a node whose offset field is not the one parse wrote
C9_Witness ==
    /\ call = "rewind"
    /\ result = ESA_MATCHFINDER_NO_ERROR
    /\ \E i \in DOMAIN sa_parent_link :
          /\ LcpOf(sa_parent_link[i]) > 0
          /\ OffsetOf(sa_parent_link[i]) # OffsetOf(parsed_link[i])

\* the node array after find_all_matches at pos, ..., target_position - 1
RECURSIVE FindAllLoop(_, _, _, _, _)
FindAllLoop(link, leaf, min_match_length, pos, target_position) ==
    IF ~(pos < target_position) THEN link
    ELSE FindAllLoop(FindAllAt(link, leaf, min_match_length, pos).link, leaf,
                     min_match_length, pos + 1, target_position)

\* the node array after find_best_match at pos, ..., target_position - 1
RECURSIVE FindBestLoop(_, _, _, _, _)
FindBestLoop(link, leaf, min_match_length, pos, target_position) ==
    IF ~(pos < target_position) THEN link
    ELSE FindBestLoop(FindBestAt(link, leaf, min_match_length, pos).link, leaf,
                      min_match_length, pos + 1, target_position)

\* C10: advance(n) leaves the node array and the position as n successive
\* find_all_matches calls, and as n successive find_best_match calls, leave
\* them.
C10_AdvanceIsDiscardingFind ==
    [][call' = "advance" =>
          /\ sa_parent_link' = FindAllLoop(sa_parent_link, plcp_leaf_link,
                                           mf.min_match_length_minus_1,
                                           position, position')
          /\ sa_parent_link' = FindBestLoop(sa_parent_link, plcp_leaf_link,
                                            mf.min_match_length_minus_1,
                                            position, position')
          /\ position' > position]_vars

\* an advance over two positions or more that stamped nodes
C10_Witness ==
    /\ call = "advance"
    /\ position >= 2
    /\ \E i \in DOMAIN sa_parent_link :
          /\ OffsetOf(sa_parent_link[i]) = position - 1
          /\ OffsetOf(parsed_link[i]) = 0

\* C5 as stated: the call made at position 0 records nothing, whatever the
\* configuration create accepted: find_all_matches stores no record and
\* find_best_match returns (0, 0).
C5_PositionZeroRecordsNothing ==
    position = 1 =>
        /\ call = "find_all_matches" => matches = <<>>
        /\ call = "find_best_match" => best = NoMatch

----------------------------------------------------------------------------
(* find_best_match against find_all_matches *)

\* the match of the deepest node on the walk whose offset field is not zero
RECURSIVE DeepestStamped(_, _, _)
DeepestStamped(link, reference, min_match_length) ==
    IF reference = 0 THEN NoMatch
    ELSE IF OffsetOf(link[reference]) # 0
    THEN Record(MatchOf(min_match_length, link[reference]))
    ELSE DeepestStamped(link, ParentOf(link[reference]), min_match_length)

\* C11: from any state in which a call may be made, find_best_match returns
\* the match of the deepest node on the walk with a non-zero offset stamp,
\* which is the first record find_all_matches would store from the same
\* state, and (0, 0) exactly when find_all_matches would store nothing; the
\* two calls leave the same node array and the same position.
C11_BestIsFirstOfAll ==
    [][call' \in {"find_best_match", "find_all_matches"} =>
          LET a == FindAllAt(sa_parent_link, plcp_leaf_link,
                             mf.min_match_length_minus_1, position)
              b == FindBestAt(sa_parent_link, plcp_leaf_link,
                              mf.min_match_length_minus_1, position)
          IN  /\ b.best = DeepestStamped(sa_parent_link, plcp_leaf_link[position],
                                         mf.min_match_length_minus_1)
              /\ b.best = (IF a.matches = <<>> THEN NoMatch ELSE a.matches[1])
              /\ (b.best = NoMatch) <=> (a.matches = <<>>)
              /\ a.link = b.link
              /\ sa_parent_link' = a.link
              /\ position' = position + 1
              /\ call' = "find_best_match" => best' = b.best
              /\ call' = "find_all_matches" => matches' = a.matches]_vars

----------------------------------------------------------------------------
(* The bounds of a reported length *)

\* the records the last call handed to the caller
Handed ==
    IF call = "find_all_matches" THEN {matches[k] : k \in 1..Len(matches)}
    ELSE IF call = "find_best_match" THEN {best} \ {NoMatch}
    ELSE {}

\* C12: every record find_all_matches stores and every non-zero match
\* find_best_match returns has min_match_length <= length <= max_match_length,
\* and a source whose common prefix with the position is max_match_length
\* or longer is reported with exactly max_match_length.
C12_LengthWithinBounds ==
    \A m \in Handed :
        /\ mf.min_match_length <= m.length
        /\ m.length <= mf.max_match_length
        /\ (m.offset # 0 /\ CommonPrefix(block, m.offset, At) >= mf.max_match_length)
               => m.length = mf.max_match_length

\* both calls have handed out a record of max_match_length whose source
\* shares more than max_match_length bytes with the position
C12_Witness ==
    /\ call \in {"find_all_matches", "find_best_match"}
    /\ \E m \in Handed :
          /\ m.length = mf.max_match_length
          /\ m.offset # 0
          /\ CommonPrefix(block, m.offset, At) > mf.max_match_length

----------------------------------------------------------------------------
(* The position of the session *)

\* C13: esa_matchfinder_get_position is 0 after a successful parse, one more
\* after each find_all_matches or find_best_match, count more after
\* advance(count), the target after a successful rewind, and what it was
\* after a rejected parse or rewind.
C13_PositionTracking ==
    [][/\ call' = "parse" =>
             esa_matchfinder_get_position' =
                 IF result' = ESA_MATCHFINDER_NO_ERROR
                 THEN 0 ELSE esa_matchfinder_get_position
       /\ call' \in {"find_all_matches", "find_best_match"} =>
             esa_matchfinder_get_position' = esa_matchfinder_get_position + 1
       /\ call' = "advance" =>
             \A count \in 1..MaxBlockLen :
                 Advance(count) =>
                     esa_matchfinder_get_position' = esa_matchfinder_get_position + count
       /\ call' = "rewind" =>
             \A target \in RewindTargets :
                 Rewind(target) =>
                     esa_matchfinder_get_position' =
                         IF result' = ESA_MATCHFINDER_NO_ERROR
                         THEN target ELSE esa_matchfinder_get_position]_vars

\* a rewind has been rejected in the middle of a parsed block
C13_Witness ==
    /\ call = "rewind"
    /\ result = ESA_MATCHFINDER_BAD_PARAMETER
    /\ block_size >= 2
    /\ esa_matchfinder_get_position = 2

----------------------------------------------------------------------------
(* The shape of the interval tree *)

\* the nodes a walk from reference visits before the root, in order; a walk
\* longer than fuel steps is cut and marked with -1
RECURSIVE WalkPath(_, _, _)
WalkPath(link, reference, fuel) ==
    IF reference = 0 THEN <<>>
    ELSE IF fuel = 0 THEN <<-1>>
    ELSE <<reference>> \o WalkPath(link, ParentOf(link[reference]), fuel - 1)

\* the walk of lines 1002-1024 from the leaf link of position p
LeafPath(p) == WalkPath(sa_parent_link, plcp_leaf_link[p], block_size)

\* the non-root nodes in use: those some position's walk visits
NodesInUse ==
    IF block_size < 1 THEN {}
    ELSE UNION {{LeafPath(p)[k] : k \in 1..Len(LeafPath(p))} : p \in 0..(block_size - 1)}

\* C14 as stated: after a successful parse every non-root node in use is
\* stored above its parent, parent(i) < i.
C14_ParentBelowChild ==
    \A i \in NodesInUse : ParentOf(sa_parent_link[i]) < i

\* the nodes of the ranges [interval_tree_start, interval_tree_end) the
\* workers recorded at lines 816-817
NodesBuilt ==
    UNION {threads[t].interval_tree_start..(threads[t].interval_tree_end - 1) :
           t \in DOMAIN threads}

\* C14: after a successful parse the parent of every non-root node in use
\* is the root or another node in use, never the node itself, and every
\* node in use lies in the range some worker recorded; the index order of
\* a node and its parent is not fixed.
C14_ParentIsAnotherNode ==
    \A i \in NodesInUse :
        /\ i # -1
        /\ ParentOf(sa_parent_link[i]) # i
        /\ ParentOf(sa_parent_link[i]) \in NodesInUse \cup {0}
        /\ i \in NodesBuilt

\* a parsed block with a node stored below its parent
C14_Witness ==
    /\ call = "parse"
    /\ result = ESA_MATCHFINDER_NO_ERROR
    /\ \E i \in NodesInUse : ParentOf(sa_parent_link[i]) > i

\* C15: after a successful parse every non-root node in use has an lcp
\* field in 1 .. max_match_length - min_match_length + 1 and its parent has
\* a strictly smaller lcp field; the root has lcp 0.
C15_LcpIncreasesTowardsLeaves ==
    block_size >= 1 =>
        /\ LcpOf(sa_parent_link[0]) = 0
        /\ \A i \in NodesInUse :
              /\ LcpOf(sa_parent_link[i]) >= 1
              /\ LcpOf(sa_parent_link[i]) <= mf.max_match_length - mf.min_match_length + 1
              /\ LcpOf(sa_parent_link[ParentOf(sa_parent_link[i])]) < LcpOf(sa_parent_link[i])

\* a parsed block with a node of the largest lcp under a parent that is
\* not the root
C15_Witness ==
    /\ call = "parse"
    /\ result = ESA_MATCHFINDER_NO_ERROR
    /\ \E i \in NodesInUse :
          /\ LcpOf(sa_parent_link[i]) = mf.max_match_length - mf.min_match_length + 1
          /\ ParentOf(sa_parent_link[i]) # 0

\* C16: after a successful parse, for every position p of the block the
\* walk from leaf_link[p] along the parent links reaches index 0 within
\* max_match_length - min_match_length + 1 steps, so the walks of
\* find_all_matches, find_best_match and advance end.
C16_WalksReachRoot ==
    block_size >= 1 =>
        \A p \in 0..(block_size - 1) :
            LET path == WalkPath(sa_parent_link, plcp_leaf_link[p],
                                 mf.max_match_length - mf.min_match_length + 1)
            IN  \A k \in 1..Len(path) : path[k] # -1

\* a parsed block with a position whose walk takes all the steps allowed,
\* and more than one
C16_Witness ==
    /\ call = "parse"
    /\ result = ESA_MATCHFINDER_NO_ERROR
    /\ \E p \in 0..(block_size - 1) :
          /\ Len(LeafPath(p)) = mf.max_match_length - mf.min_match_length + 1
          /\ Len(LeafPath(p)) >= 2
          /\ \A k \in 1..Len(LeafPath(p)) : LeafPath(p)[k] # -1

----------------------------------------------------------------------------
(* The parameters create accepts *)

\* C17 as stated: esa_matchfinder_create returns a session exactly when
\* 0 <= max_block_size <= ESA_MATCHFINDER_MAX_BLOCK_SIZE, min_match_length >=
\* ESA_MATCHFINDER_MIN_MATCH_LENGTH, min_match_length <= max_match_length and
\* max_match_length <= ESA_MATCHFINDER_MAX_MATCH_LENGTH + min_match_length - 1.
C17_AcceptsUpToMaxMatchLength ==
    [][call' = "create" =>
          \A p \in CreateInputs :
              Create(p[1], p[2], p[3]) =>
                  (mf' # NullCtx <=>
                      /\ 0 <= p[1]
                      /\ p[1] <= ESA_MATCHFINDER_MAX_BLOCK_SIZE
                      /\ p[2] >= ESA_MATCHFINDER_MIN_MATCH_LENGTH
                      /\ p[2] <= p[3]
                      /\ p[3] <= ESA_MATCHFINDER_MAX_MATCH_LENGTH + p[2] - 1)]_vars

\* C17: esa_matchfinder_create returns a session exactly when
\* 0 <= max_block_size <= ESA_MATCHFINDER_MAX_BLOCK_SIZE, min_match_length >=
\* ESA_MATCHFINDER_MIN_MATCH_LENGTH, min_match_length <= max_match_length and
\* max_match_length <= ESA_MATCHFINDER_MAX_MATCH_LENGTH + min_match_length - 2,
\* and NULL otherwise; esa_matchfinder_create_omp asks for num_threads >= 0
\* as well.
C17_AcceptsUpToLcpMax ==
    [][call' \in {"create", "create_omp"} =>
          \A p \in CreateInputs :
              (\/ call' = "create" /\ Create(p[1], p[2], p[3])
               \/ CreateOmp(p[1], p[2], p[3], p[4])) =>
                  (mf' # NullCtx <=>
                      /\ 0 <= p[1]
                      /\ p[1] <= ESA_MATCHFINDER_MAX_BLOCK_SIZE
                      /\ p[2] >= ESA_MATCHFINDER_MIN_MATCH_LENGTH
                      /\ p[2] <= p[3]
                      /\ p[3] <= ESA_MATCHFINDER_MAX_MATCH_LENGTH + p[2] - 2
                      /\ call' = "create_omp" => p[4] >= 0)]_vars

\* esa_matchfinder_create has returned a session with the longest
\* max_match_length it takes for a min_match_length
C17_Witness ==
    /\ call = "create"
    /\ mf # NullCtx
    /\ mf.max_match_length = ESA_MATCHFINDER_MAX_MATCH_LENGTH + mf.min_match_length - 2

\* C18 as stated: esa_matchfinder_create and esa_matchfinder_create_omp
\* return NULL whenever max_match_length is above
\* ESA_MATCHFINDER_MAX_MATCH_LENGTH, whatever min_match_length is: no session
\* has a max_match_length above that constant.
C18_NoSessionAboveMaxMatchLength ==
    mf # NullCtx => mf.max_match_length <= ESA_MATCHFINDER_MAX_MATCH_LENGTH

----------------------------------------------------------------------------
(* Rejected calls *)

C20_RejectedRewindHasNoEffect ==
    [][call' = "rewind" =>
          \A target \in RewindTargets :
              (Rewind(target) /\ (mf = NullCtx \/ target < 0 \/ target >= block_size)) =>
                  /\ result' = ESA_MATCHFINDER_BAD_PARAMETER
                  /\ UNCHANGED <<position, sa_parent_link, prefetch,
                                 block_size, plcp_leaf_link, threads>>]_vars

\* a rewind has been rejected in the middle of a parsed block, with stamped
\* nodes and a prefetch table that holds node indices
C20_Witness ==
    /\ call = "rewind"
    /\ result = ESA_MATCHFINDER_BAD_PARAMETER
    /\ position >= 2
    /\ prefetch # NoPrefetch
    /\ sa_parent_link # parsed_link

\* ---------------------------------------------------------------------
\* The suffix-array library failing
\* ---------------------------------------------------------------------

\* lines 878-928 when libsais_ctx returns sa_result and, if that is 0,
\* libsais_plcp returns plcp_result, one of the two non-zero: block_size is
\* already written (line 878), neither the widening, the builder nor
\* set_position runs, and the library's own result is returned (line 928).
\* What the two arrays hold then is indeterminate, written as <<>>.
ParseOracleFails(n, sa_result, plcp_result) ==
    /\ mf # NullCtx
    /\ n >= 0
    /\ n <= mf.max_block_size
    /\ sa_result # ESA_MATCHFINDER_NO_ERROR \/ plcp_result # ESA_MATCHFINDER_NO_ERROR
    /\ call' = "parse"
    /\ block_size' = n
    /\ result' = IF sa_result # ESA_MATCHFINDER_NO_ERROR THEN sa_result ELSE plcp_result
    /\ sa_parent_link' = <<>>
    /\ plcp_leaf_link' = <<>>
    /\ parsed_link' = <<>>
    /\ matches' = <<>>
    /\ best' = NoMatch
    /\ pass_log' = BrokenPass
    /\ last_pass' = NoPass
    /\ UNCHANGED <<region, block, libsais, built, mf, position, threads, prefetch>>

\* sessions of one worker for the blocks of Blocks
InitOracle == InitWith(Blocks, {MaxBlockLen}, {<<2, 3>>}, {1}) /\ region = NoRegion

\* the API with a library that may fail: libsais_ctx documents 0, -1 and -2
\* as its results, libsais_plcp 0 and -1. After a failed parse the session
\* is used again only by the next parse.
NextOracle ==
    \/ \E n \in {-1, BlockLen(block)} : Parse(n)
    \/ \E sa_result \in {0, -1, -2}, plcp_result \in {0, -1} :
           ParseOracleFails(BlockLen(block), sa_result, plcp_result)
    \/ sa_parent_link # <<>> /\ FindAllMatches
    \/ sa_parent_link # <<>> /\ FindBestMatch
    \/ sa_parent_link # <<>> /\ \E count \in 1..MaxBlockLen : Advance(count)
    \/ sa_parent_link # <<>> /\ \E target \in RewindTargets : Rewind(target)

SpecOracle == InitOracle /\ [][NextOracle]_vars

----------------------------------------------------------------------------
(* The parallel region of esa_matchfinder_build_interval_tree_omp, worker  *)
(* by worker.  region holds the shared arrays, the breakpoints array, each *)
(* worker's place (pc) and locals, and, as history, the words each worker  *)
(* has read and written since the barrier.                                 *)

\* the look-ahead of lines 660 and 720
build_prefetch_distance == 32

\* the library's arrays at the entry of the region (lines 751-758): every
\* worker is about to look for its breakpoint; the breakpoints array is a
\* local without an initial value, written stale here
RegionEntered(link, leaf, num_threads, omp_num_threads, omp_block_stride, stale) ==
    LET workers == 0..(omp_num_threads - 1)
    IN  [pc |-> [t \in workers |-> "scan"],
         omp_num_threads |-> omp_num_threads,
         omp_block_stride |-> omp_block_stride,
         breakpoints |-> [t \in workers |-> stale],
         link |-> link, leaf |-> leaf,
         threads |-> NoThreads(num_threads),
         omp_block_start |-> [t \in workers |-> PartitionStart(t, omp_block_stride)],
         sweep |-> [t \in workers |-> [stack |-> <<Word(0)>>, next |-> 0, i |-> 0]],
         scanned |-> [t \in workers |-> {}],
         node_reads |-> [t \in workers |-> {}],
         hint_reads |-> [t \in workers |-> {}],
         node_writes |-> [t \in workers |-> {}],
         leaf_uses |-> [t \in workers |-> {}],
         overwritten_read |-> FALSE]

\* the text positions whose PLCP entry the scan of lines 722-731 reads
\* before it returns breakpoint
ScanReads(link, omp_block_start, omp_block_size, breakpoint) ==
    {U64(link[i]) : i \in (IF breakpoint = -1 THEN omp_block_start ELSE breakpoint)
                          ..(omp_block_start + omp_block_size - 1)}

\* lines 790-792 for worker t, found is what its scan returns
Published(t, found, n) ==
    [region EXCEPT
        !.pc[t] = "barrier",
        !.breakpoints[t] = IF t < region.omp_num_threads - 1 THEN found ELSE n,
        !.scanned[t] = IF t < region.omp_num_threads - 1
                       THEN ScanReads(region.link, PartitionStart(t, region.omp_block_stride),
                                      region.omp_block_stride, found)
                       ELSE {},
        !.overwritten_read =
            \/ @
            \/ /\ t < region.omp_num_threads - 1
               /\ \E u \in DOMAIN region.pc :
                      region.leaf_uses[u] \cap
                          ScanReads(region.link, PartitionStart(t, region.omp_block_stride),
                                    region.omp_block_stride, found) # {}]

\* a worker starts its sweep with the breakpoints as they are
BarrierOpenMutant(pc) == TRUE

\* #pragma omp barrier, line 794: every worker has published its breakpoint
BarrierOpen(pc) == \A u \in DOMAIN pc : pc[u] # "scan"

\* lines 796-811 for worker t: its effective range, and the range's end
\* recorded before the sweep is called
Ranged(t) ==
    LET omp_block_end   == region.breakpoints[t]
        omp_block_start == EffectiveStart(region.breakpoints, t)
    IN  IF omp_block_end # -1 /\ omp_block_start < omp_block_end
        THEN [region EXCEPT
                 !.pc[t] = "sweep",
                 !.omp_block_start[t] = omp_block_start,
                 !.threads[t].interval_tree_end = omp_block_end,
                 !.sweep[t] = [stack |-> <<Word(0)>>, next |-> omp_block_end - 1,
                               i |-> omp_block_end - 1]]
        ELSE [region EXCEPT !.pc[t] = "done"]

\* one turn of the loop of lines 668-704 by worker t, r is the sweep state
\* it leaves; the function returns after the turn for omp_block_start
StepTaken(t, r) ==
    LET i == region.sweep[t].i
        returns == ~(r.i >= region.omp_block_start[t])
    IN  [region EXCEPT
            !.link = r.link, !.leaf = r.leaf,
            !.sweep[t] = [stack |-> r.stack, next |-> r.next, i |-> r.i],
            !.pc[t] = IF returns THEN "done" ELSE "sweep",
            !.threads[t].interval_tree_start = IF returns THEN r.next + 1 ELSE @,
            !.node_reads[t] = @ \cup {i},
            !.hint_reads[t] = @ \cup ({i - build_prefetch_distance} \cap DOMAIN region.link),
            !.node_writes[t] = @ \cup {j \in DOMAIN r.link : r.link[j] # region.link[j]},
            !.leaf_uses[t] = @ \cup {U64(region.link[i])}]

session == <<block, libsais, built, mf, block_size, position, sa_parent_link, plcp_leaf_link, threads, prefetch, call, result, matches, best, parsed_link, pass_log, last_pass>>

\* worker t looks for its breakpoint and publishes it
Scan(t) ==
    /\ region.pc[t] = "scan"
    /\ region' = Published(t,
                     esa_matchfinder_find_breakpoint(region.link, region.leaf,
                         mf.min_match_length, PartitionStart(t, region.omp_block_stride),
                         region.omp_block_stride),
                     BlockLen(block))
    /\ UNCHANGED session

\* worker t leaves the barrier and takes its effective range
Barrier(t) ==
    /\ region.pc[t] = "barrier"
    /\ BarrierOpen(region.pc)
    /\ region' = Ranged(t)
    /\ UNCHANGED session

\* worker t sweeps one suffix-array index
Sweep(t) ==
    /\ region.pc[t] = "sweep"
    /\ region' = StepTaken(t,
                     BuildStep([link |-> region.link, leaf |-> region.leaf,
                                stack |-> region.sweep[t].stack,
                                next |-> region.sweep[t].next, i |-> region.sweep[t].i],
                               mf.min_match_length_minus_1,
                               mf.max_match_length - mf.min_match_length_minus_1))
    /\ UNCHANGED session

\* lines 825-827, after the region: the root sentinel
Joined ==
    /\ \A t \in DOMAIN region.pc : region.pc[t] = "done"
    /\ region' = [region EXCEPT !.pc = [t \in DOMAIN region.pc |-> "joined"],
                                !.link[0] = RootWord]
    /\ UNCHANGED session

\* the blocks built worker by worker: those of Blocks, and "aaa" followed
\* by 33 times "b", long enough for the look-ahead to reach a lower range
BuildBlocks ==
    Blocks \cup {[i \in 0..35 |-> IF i < 3 THEN 0 ELSE 1]}

\* teams of 2 and 3 workers at the entry of the region, for every stride
InitBuild ==
    /\ InitWith(BuildBlocks, {MaxBlockLen}, {<<2, 3>>, <<3, 4>>}, {2, 3})
    /\ \E omp_block_stride \in Strides(BlockLen(block), mf.num_threads), stale \in {-1, 0} :
          region = RegionEntered(WidenedSA(libsais.SA, BlockLen(block)), libsais.PLCP,
                                 mf.num_threads, mf.num_threads, omp_block_stride, stale)

NextBuild ==
    \/ \E t \in DOMAIN region.pc : Scan(t)
    \/ \E t \in DOMAIN region.pc : Barrier(t)
    \/ \E t \in DOMAIN region.pc : Sweep(t)
    \/ Joined

SpecBuild == InitBuild /\ [][NextBuild]_vars

\* C21: after parse or rewind has returned, the result is NO_ERROR (0) or
\* BAD_PARAMETER (-1), whatever the suffix-array library returned.
C21_OnlyTwoStatusCodes ==
    call \in {"parse", "rewind"} =>
        result \in {ESA_MATCHFINDER_NO_ERROR, ESA_MATCHFINDER_BAD_PARAMETER}

\* C22: in a session with max_match_length <= ESA_MATCHFINDER_MAX_MATCH_LENGTH,
\* with l(q) the common prefix of B[q..] and B[p..] cut to max_match_length,
\* find_all_matches at p stores the record (l(q), q) exactly for the earlier
\* positions q >= 1 with l(q) >= min_match_length that no later q' < p
\* reaches (l(q') < l(q) for q < q' < p), each once, and nothing else;
\* position 0 is never a source.
C22_AgreesWithBruteForce ==
    (FoundAll /\ mf.max_match_length <= ESA_MATCHFINDER_MAX_MATCH_LENGTH) =>
        /\ {<<matches[i].length, matches[i].offset>> : i \in 1..Len(matches)}
             = {<<Reported(q, At), q>> :
                    q \in {q \in 1..(At - 1) :
                              /\ Reported(q, At) >= mf.min_match_length
                              /\ \A later \in (q + 1)..(At - 1) :
                                     Reported(later, At) < Reported(q, At)}}
        /\ \A i, j \in 1..Len(matches) : matches[i] = matches[j] => i = j

\* a call that stored a record while an earlier position q >= 1 is left out
\* because a later one reaches as far, and position 0 is left out although
\* it shares min_match_length bytes or more with the current position
C22_Witness ==
    /\ FoundAll
    /\ mf.max_match_length <= ESA_MATCHFINDER_MAX_MATCH_LENGTH
    /\ Len(matches) >= 1
    /\ Reported(0, At) >= mf.min_match_length
    /\ \E q \in 1..(At - 1) :
          /\ Reported(q, At) >= mf.min_match_length
          /\ \E later \in (q + 1)..(At - 1) : Reported(later, At) >= Reported(q, At)

\* C23: in a session with max_match_length <= ESA_MATCHFINDER_MAX_MATCH_LENGTH,
\* after a successful parse and any find_* / advance / rewind calls, every
\* record find_all_matches stores and every non-zero match find_best_match
\* returns at position p names an earlier position of the block itself:
\* 1 <= offset < p and B[offset .. offset+length) = B[p .. p+length).
C23_OffsetIsEarlierPosition ==
    mf.max_match_length <= ESA_MATCHFINDER_MAX_MATCH_LENGTH =>
        \A m \in Handed :
            /\ 1 <= m.offset
            /\ m.offset < At
            /\ m.length >= 1
            /\ SameBytes(m.offset, At, m.length)

\* find_best_match has returned a match whose source is neither the
\* position before nor the distance back
C23_Witness ==
    /\ call = "find_best_match"
    /\ mf.max_match_length <= ESA_MATCHFINDER_MAX_MATCH_LENGTH
    /\ best.length >= mf.min_match_length
    /\ best.offset >= 1
    /\ best.offset < At - 1
    /\ best.offset # At - best.offset

----------------------------------------------------------------------------
(* The stamps *)

\* C24: after a successful parse and any find_all_matches / find_best_match
\* / advance / rewind calls within the block, the offset field of every
\* non-root node in use is the largest position q with 1 <= q < position
\* whose walk from leaf_link[q] visits the node, and 0 if there is none; so
\* every offset field is 0 while the position is 0.
C24_StampIsLastVisitor ==
    block_size >= 1 =>
        \A i \in NodesInUse :
            LET visitors == {q \in 1..(position - 1) :
                                \E k \in 1..Len(LeafPath(q)) : LeafPath(q)[k] = i}
            IN  /\ visitors = {} => OffsetOf(sa_parent_link[i]) = 0
                /\ visitors # {} =>
                       /\ OffsetOf(sa_parent_link[i]) \in visitors
                       /\ \A q \in visitors : q <= OffsetOf(sa_parent_link[i])

\* rewind has moved the session back to a position above 0, and the tree
\* holds a node no earlier position visits, a node the position just
\* before visits and a node last visited further back
C24_Witness ==
    /\ call = "rewind"
    /\ result = ESA_MATCHFINDER_NO_ERROR
    /\ position >= 3
    /\ \E i, j, k \in NodesInUse :
          /\ OffsetOf(sa_parent_link[i]) = 0
          /\ OffsetOf(sa_parent_link[j]) = position - 1
          /\ OffsetOf(sa_parent_link[k]) >= 1
          /\ OffsetOf(sa_parent_link[k]) < position - 1

----------------------------------------------------------------------------
(* The sweep of the builder *)

\* the state of the one-worker sweep of lines 663-704 over the library's
\* arrays once the suffix-array indices block_size - 1 down to i are done
SweptDownTo(i) ==
    BuildSweep([link |-> WidenedSA(libsais.SA, block_size), leaf |-> libsais.PLCP,
                stack |-> <<Word(0)>>, next |-> block_size - 1, i |-> block_size - 1],
               i, mf.min_match_length_minus_1,
               mf.max_match_length - mf.min_match_length_minus_1)

\* the lcp field the sweep gives suffix-array index i: PLCP[SA[i]] less
\* min_match_length - 1, kept within 0 .. max_match_length - min_match_length + 1;
\* 0 above the last index
SweepLcp(i) ==
    LET lcp == IF i >= block_size THEN 0
               ELSE libsais.PLCP[libsais.SA[i]] - (mf.min_match_length - 1)
    IN  IF lcp < 0 THEN 0
        ELSE IF lcp > mf.max_match_length - mf.min_match_length + 1
        THEN mf.max_match_length - mf.min_match_length + 1
        ELSE lcp

\* C25 as stated: every position whose PLCP value is below min_match_length
\* has leaf link 0 and find_all_matches stores nothing there; and the leaf
\* link of SA[i] is the index of the stack top left once index i is done,
\* after the pops.
C25_LeafLinkAfterPops ==
    block_size >= 1 =>
        /\ \A pos \in 0..(block_size - 1) :
               libsais.PLCP[pos] < mf.min_match_length => plcp_leaf_link[pos] = 0
        /\ (FoundAll /\ libsais.PLCP[At] < mf.min_match_length) => matches = <<>>
        /\ (call = "parse" /\ mf.num_threads = 1) =>
               \A i \in 0..(block_size - 1) :
                   plcp_leaf_link[libsais.SA[i]] = Low32(Top(SweptDownTo(i).stack))

\* C25 as amended: the leaf link of SA[i] is the stack top after the push
\* of index i and before its pops, the deeper of the candidate of index i
\* and the top index i + 1 left: its lcp field is the larger of the two
\* clamped PLCP values, and it is 0 exactly when PLCP[SA[i]] and
\* PLCP[SA[i + 1]] are both below min_match_length (i + 1 may be past the
\* end); find_all_matches stores nothing at a position whose leaf link is 0.
C25_LeafLinkBeforePops ==
    block_size >= 1 =>
        /\ \A i \in 0..(block_size - 1) :
               LET leaf == plcp_leaf_link[libsais.SA[i]]
                   deeper == IF SweepLcp(i) > SweepLcp(i + 1)
                             THEN SweepLcp(i) ELSE SweepLcp(i + 1)
               IN  /\ LcpOf(sa_parent_link[leaf]) = deeper
                   /\ leaf = 0 <=> deeper = 0
        /\ (FoundAll /\ plcp_leaf_link[At] = 0) => matches = <<>>
        /\ (call = "parse" /\ mf.num_threads = 1) =>
               \A i \in 0..(block_size - 1) :
                   plcp_leaf_link[libsais.SA[i]] =
                       Low32(Top(PushIfDeeper(SweptDownTo(i + 1), SweepLcp(i)).stack))

\* find_all_matches has stored a record at a position whose PLCP value is
\* below min_match_length
C25_Witness ==
    /\ FoundAll
    /\ libsais.PLCP[At] < mf.min_match_length
    /\ plcp_leaf_link[At] # 0
    /\ matches # <<>>

----------------------------------------------------------------------------
(* The recorded ranges and the root *)

\* C26: for every number of workers, the ranges [interval_tree_start,
\* interval_tree_end) parse recorded hold every node a leaf link or a
\* parent link refers to and never index 0; so after rewind to position 0
\* every non-root node has offset 0 and the lcp and parent parse gave it.
C26_RangesCoverNodes ==
    block_size >= 1 =>
        /\ \A p \in 0..(block_size - 1) : plcp_leaf_link[p] \in NodesBuilt \cup {0}
        /\ \A i \in NodesInUse : ParentOf(sa_parent_link[i]) \in NodesBuilt \cup {0}
        /\ NodesInUse \subseteq NodesBuilt
        /\ 0 \notin NodesBuilt
        /\ (call = "rewind" /\ result = ESA_MATCHFINDER_NO_ERROR /\ position = 0) =>
               \A i \in (DOMAIN sa_parent_link) \ {0} :
                   /\ OffsetOf(sa_parent_link[i]) = 0
                   /\ LcpOf(sa_parent_link[i]) = LcpOf(parsed_link[i])
                   /\ ParentOf(sa_parent_link[i]) = ParentOf(parsed_link[i])

\* a tree two workers built, each with nodes in its own range, rewound to
\* position 0 after a find_all_matches call at every position
C26_Witness ==
    /\ call = "rewind"
    /\ result = ESA_MATCHFINDER_NO_ERROR
    /\ position = 0
    /\ last_pass.full
    /\ \A t \in DOMAIN threads :
           \E i \in NodesInUse : /\ threads[t].interval_tree_start <= i
                                 /\ i < threads[t].interval_tree_end
    /\ Cardinality(DOMAIN threads) = 2

\* C27: from the end of a successful parse on, through find_all_matches,
\* find_best_match, advance and rewind, node word 0 is ESA_MF_OFFSET_MASK:
\* offset field all ones, parent 0, lcp 0; no call changes it, so the replay
\* of rewind, which climbs while the offset field is 0, stops at index 0 at
\* the latest.
C27_RootSentinelPermanent ==
    position >= 0 =>
        /\ OffsetOf(sa_parent_link[0]) = 2 ^ ESA_MF_OFFSET_BITS - 1
        /\ ParentOf(sa_parent_link[0]) = 0
        /\ LcpOf(sa_parent_link[0]) = 0
        /\ sa_parent_link[0] = parsed_link[0]

\* rewind has replayed two positions or more of a block with nodes, after
\* calls that stamped them
C27_Witness ==
    /\ call = "rewind"
    /\ result = ESA_MATCHFINDER_NO_ERROR
    /\ position >= 3
    /\ sa_parent_link # parsed_link
    /\ \E p \in 1..(position - 1) : plcp_leaf_link[p] # 0

----------------------------------------------------------------------------
(* The workers of the build *)

\* C28: in a build with more than one worker, no worker has left the
\* barrier, let alone written a node word or a leaf link, while a worker
\* is still looking for its breakpoint; a sweeping worker's range is the
\* one the final breakpoints of the lower workers give; and no breakpoint
\* scan has read a PLCP entry a sweep had already used for a leaf link.
C28_SweepsStartAfterAllScans ==
    \A t \in DOMAIN region.pc :
        LET n == BlockLen(block)
            final == Breakpoints(WidenedSA(libsais.SA, n), libsais.PLCP,
                                 mf.min_match_length, n, region.omp_num_threads,
                                 region.omp_block_stride)
            started == \/ region.pc[t] \in {"sweep", "done", "joined"}
                       \/ region.node_writes[t] # {}
                       \/ region.leaf_uses[t] # {}
        IN  /\ started => \A u \in DOMAIN region.pc :
                              /\ region.pc[u] # "scan"
                              /\ region.breakpoints[u] = final[u]
            /\ region.pc[t] = "sweep" =>
                  /\ region.omp_block_start[t] = EffectiveStart(final, t)
                  /\ region.threads[t].interval_tree_end = final[t]
            /\ ~region.overwritten_read

\* three workers, the middle one without a breakpoint: the last worker has
\* written, from the breakpoint of worker 0, while worker 0 waits at the barrier
C28_Witness ==
    /\ DOMAIN region.pc = 0..2
    /\ region.breakpoints[1] = -1
    /\ region.pc[0] = "barrier"
    /\ region.pc[2] = "sweep"
    /\ region.node_writes[2] # {}
    /\ region.omp_block_start[2] = region.breakpoints[0]
    /\ region.breakpoints[0] > 0

\* C29: once every worker has left the barrier, the effective ranges of
\* the workers that build are pairwise disjoint and cover 0 .. block_size - 1;
\* a worker takes and writes node words only inside its range and uses
\* the leaf entries only of the positions SA[i] of its range; and no word
\* one worker writes is written or read by another worker during the build.
C29_WorkersShareNoWord ==
    LET workers == DOMAIN region.pc
        builds(t) == region.threads[t].interval_tree_end > region.omp_block_start[t]
        range(t) == IF builds(t)
                    THEN region.omp_block_start[t]..(region.threads[t].interval_tree_end - 1)
                    ELSE {}
    IN  (workers # {} /\ \A t \in workers : region.pc[t] \in {"sweep", "done", "joined"}) =>
            /\ \A t, u \in workers : t # u => range(t) \cap range(u) = {}
            /\ UNION {range(t) : t \in workers} = 0..(BlockLen(block) - 1)
            /\ \A t \in workers :
                  /\ region.node_writes[t] \subseteq range(t)
                  /\ builds(t) => (region.sweep[t].next + 1)..(region.threads[t].interval_tree_end - 1)
                                      \subseteq range(t)
                  /\ region.leaf_uses[t] \subseteq {libsais.SA[i] : i \in range(t)}
            /\ \A t, u \in workers :
                  t # u =>
                      /\ region.node_writes[t] \cap region.node_writes[u] = {}
                      /\ region.leaf_uses[t] \cap region.leaf_uses[u] = {}
                      /\ region.node_writes[t] \cap region.node_reads[u] = {}
                      /\ region.node_writes[t] \cap region.hint_reads[u] = {}

\* C30: in the sweep, once a suffix-array index i with PLCP[SA[i]] below
\* min_match_length is done, the stack holds the root sentinel (lcp 0,
\* index 0) and nothing else; so the indices below i get, from the sweep
\* that goes on, the same lcp values from leaf to root as from a sweep
\* started afresh at i - 1.
C30_StackCollapsesAtBreak ==
    (call = "parse" /\ result = ESA_MATCHFINDER_NO_ERROR) =>
        \A i \in 0..(block_size - 1) :
            libsais.PLCP[libsais.SA[i]] < mf.min_match_length =>
                /\ SweptDownTo(i).stack = <<[lcp |-> 0, offset |-> 0, parent |-> 0]>>
                /\ \A j \in 0..(i - 1) :
                       LcpChain(SweptDownTo(0).link, SweptDownTo(0).leaf[libsais.SA[j]],
                                block_size + 1)
                         = LcpChain(esa_matchfinder_build_interval_tree(
                                        WidenedSA(libsais.SA, block_size), libsais.PLCP,
                                        mf.min_match_length, mf.max_match_length, 0, i).link,
                                    esa_matchfinder_build_interval_tree(
                                        WidenedSA(libsais.SA, block_size), libsais.PLCP,
                                        mf.min_match_length, mf.max_match_length, 0, i).leaf[libsais.SA[j]],
                                    block_size + 1)

\* a parsed block with an index of small PLCP at which an open interval
\* is closed, and with nodes below it
C30_Witness ==
    /\ call = "parse"
    /\ result = ESA_MATCHFINDER_NO_ERROR
    /\ \E i \in 1..(block_size - 2) :
          /\ libsais.PLCP[libsais.SA[i]] < mf.min_match_length
          /\ Len(SweptDownTo(i + 1).stack) >= 2
          /\ \E j \in 0..(i - 1) : plcp_leaf_link[libsais.SA[j]] # 0

\* C31: after every turn of the sweep the stack of open intervals starts
\* with the root sentinel (lcp 0, index 0) and is strictly increasing in
\* lcp from bottom to top, so it holds at most max_match_length -
\* min_match_length + 2 entries, and the slot above the top, where the
\* candidate is stored before it is kept or dropped, lies inside the array
\* of 2 * ESA_MATCHFINDER_MAX_MATCH_LENGTH words.
C31_StackStrictlyIncreasing ==
    (call = "parse" /\ result = ESA_MATCHFINDER_NO_ERROR) =>
        \A i \in 0..block_size :
            LET stack == SweptDownTo(i).stack
            IN  /\ stack[1] = [lcp |-> 0, offset |-> 0, parent |-> 0]
                /\ \A k \in 1..(Len(stack) - 1) : LcpOf(stack[k]) < LcpOf(stack[k + 1])
                /\ Len(stack) <= mf.max_match_length - mf.min_match_length + 2
                /\ Len(stack) + 1 <= 2 * ESA_MATCHFINDER_MAX_MATCH_LENGTH

\* a sweep whose stack is as deep as the lengths allow, the sentinel and
\* two open intervals
C31_Witness ==
    /\ call = "parse"
    /\ result = ESA_MATCHFINDER_NO_ERROR
    /\ \E i \in 0..block_size :
          /\ Len(SweptDownTo(i).stack) = mf.max_match_length - mf.min_match_length + 2
          /\ Len(SweptDownTo(i).stack) >= 3

\* the sweep of lines 663-704 over the range [omp_block_start, omp_block_end)
\* of the library's arrays, once the indices omp_block_end - 1 down to i are done
SweptRange(omp_block_end, i) ==
    BuildSweep([link |-> WidenedSA(libsais.SA, block_size), leaf |-> libsais.PLCP,
                stack |-> <<Word(0)>>, next |-> omp_block_end - 1, i |-> omp_block_end - 1],
               i, mf.min_match_length_minus_1,
               mf.max_match_length - mf.min_match_length_minus_1)

\* the places a range can start at and end at: index 0, the indices whose
\* PLCP value is below min_match_length (lines 727-730), and block_size
RangeEdges ==
    {0, block_size} \cup
        {i \in 0..(block_size - 1) : libsais.PLCP[libsais.SA[i]] < mf.min_match_length}

\* C32: at the end of the sweep of a range, the whole block or a worker's
\* effective range, no interval is open: the stack is down to the root
\* sentinel, and every node index the sweep took holds a word with the lcp
\* the interval was opened with, offset 0 and, as parent, the root or
\* another node the same sweep took.
C32_NoIntervalLeftOpen ==
    (call = "parse" /\ result = ESA_MATCHFINDER_NO_ERROR) =>
        \A a, b \in RangeEdges :
            a < b =>
                LET taken == (SweptRange(b, a).next + 1)..(b - 1)
                IN  /\ SweptRange(b, a).stack = <<[lcp |-> 0, offset |-> 0, parent |-> 0]>>
                    /\ \A j \in taken :
                          /\ j > a
                          /\ LcpOf(SweptRange(b, a).link[j]) >= 1
                          /\ OffsetOf(SweptRange(b, a).link[j]) = 0
                          /\ ParentOf(SweptRange(b, a).link[j]) \in (taken \cup {0}) \ {j}
                    /\ \A i \in a..(b - 1) :
                          \A k \in 2..Len(SweptRange(b, i).stack) :
                              LcpOf(SweptRange(b, a).link[Low32(SweptRange(b, i).stack[k])])
                                  = LcpOf(SweptRange(b, i).stack[k])

\* a range that is not the whole block, at whose lowest index two open
\* intervals are closed, one under the other
C32_Witness ==
    /\ call = "parse"
    /\ result = ESA_MATCHFINDER_NO_ERROR
    /\ \E a, b \in RangeEdges :
          /\ a < b
          /\ b - a < block_size
          /\ Len(SweptRange(b, a + 1).stack) >= 3

(***************************************************************************)
(* The widening of the suffix array in place, lines 538-576, one load and  *)
(* one store of a worker at a time.  The storage is an array of 32-bit     *)
(* halves: S[i] is half i, D[i] is the halves 2i (low) and 2i + 1 (high).  *)
(***************************************************************************)

\* the loop bound of line 550, 65536 in the code, scaled to the arrays below
ConvertThreshold == 32

\* block_size = n >> 1 of line 552
HalfBlockMutant(n) == n - 1
HalfBlock(n) == n \div 2

\* (block_size / omp_num_threads) & (-16) of line 567
ConvertStride(omp_block_size, omp_num_threads) ==
    ((omp_block_size \div omp_num_threads) \div 16) * 16

\* the storage at the call of line 909: n entries of 32 bits in the lower
\* half, and whatever the upper half holds
ConvertEntered(S, num_threads, stale) ==
    [pc |-> <<"test">>, S |-> S, n |-> Len(S), num_threads |-> num_threads,
     mem |-> [h \in 0..(2 * Len(S) - 1) |-> IF h < Len(S) THEN S[h + 1] ELSE stale],
     workers |-> <<>>, i |-> 0,
     unread |-> 0..(Len(S) - 1), overwritten_read |-> FALSE]

\* D[i] = (uint64_t)value of lines 540 and 545: the 32 bits of the value in
\* the low half, zeros in the high half
Widened(mem, i, value) == [mem EXCEPT ![2 * i] = value, ![2 * i + 1] = 0]

\* lines 550-552 and 575: the test of the loop, and the team of line 555
\* with each worker's range of lines 567-571
ConvertTest ==
    /\ region.pc = <<"test">>
    /\ IF region.n >= ConvertThreshold
       THEN \E omp_num_threads \in TeamSizes(region.num_threads) :
               LET omp_block_size == HalfBlock(region.n)
                   n == region.n - omp_block_size
                   omp_block_stride == ConvertStride(omp_block_size, omp_num_threads)
                   start(t) == (t - 1) * omp_block_stride
                   size(t) == IF t - 1 < omp_num_threads - 1 THEN omp_block_stride
                              ELSE omp_block_size - start(t)
               IN  region' = [region EXCEPT
                                 !.n = n,
                                 !.pc = [t \in 1..omp_num_threads |-> "load"],
                                 !.workers = [t \in 1..omp_num_threads |->
                                                 [i |-> n + start(t),
                                                  j |-> n + start(t) + size(t),
                                                  value |-> 0]]]
       ELSE region' = [region EXCEPT !.pc = <<"tail">>, !.i = region.n - 1]
    /\ UNCHANGED session

\* line 545: the test i < j and the load of S[i]
ConvertLoad(t) ==
    /\ region.pc[t] = "load"
    /\ LET w == region.workers[t]
       IN  IF w.i < w.j
           THEN region' = [region EXCEPT
                              !.pc[t] = "store",
                              !.workers[t].value = region.mem[w.i],
                              !.unread = @ \ {w.i},
                              !.overwritten_read = @ \/ region.mem[w.i] # region.S[w.i + 1]]
           ELSE region' = [region EXCEPT !.pc[t] = "end"]
    /\ UNCHANGED session

\* line 545: the store of D[i], and i += 1
ConvertStore(t) ==
    /\ region.pc[t] = "store"
    /\ LET w == region.workers[t]
       IN  region' = [region EXCEPT
                         !.pc[t] = "load",
                         !.mem = Widened(@, w.i, w.value),
                         !.workers[t].i = w.i + 1]
    /\ UNCHANGED session

\* line 572: the end of the parallel region
ConvertJoin ==
    /\ region.pc # <<>>
    /\ \A t \in DOMAIN region.pc : region.pc[t] = "end"
    /\ region' = [region EXCEPT !.pc = <<"test">>, !.workers = <<>>]
    /\ UNCHANGED session

\* line 540: one turn of the loop over the first n entries, from the right
ConvertTail ==
    /\ region.pc = <<"tail">>
    /\ IF region.i >= 0
       THEN region' = [region EXCEPT
                          !.mem = Widened(@, region.i, region.mem[region.i]),
                          !.i = @ - 1,
                          !.unread = @ \ {region.i},
                          !.overwritten_read =
                              @ \/ region.mem[region.i] # region.S[region.i + 1]]
       ELSE region' = [region EXCEPT !.pc = <<"done">>]
    /\ UNCHANGED session

\* the arrays widened: n entries, below, at and above the loop bound and
\* twice the loop bound, each holding suffix-array entries, which are below
\* 2^31, that tell their index
ConvertArrays ==
    UNION {{[i \in 1..n |-> n - i], [i \in 1..n |-> 2^30 + (2^30 - i)]} : n \in {0, 1, 7, 31, 32, 33, 64, 65}}

InitConvert ==
    /\ InitWith({Bytes(<<0, 1>>)}, {MaxBlockLen}, {<<2, 3>>}, {1})
    /\ \E S \in ConvertArrays, num_threads \in {1, 2}, stale \in {0, 2^30 + (2^30 - 1)} :
          region = ConvertEntered(S, num_threads, stale)

NextConvert ==
    \/ ConvertTest
    \/ \E t \in DOMAIN region.pc : ConvertLoad(t)
    \/ \E t \in DOMAIN region.pc : ConvertStore(t)
    \/ ConvertJoin
    \/ ConvertTail

SpecConvert == InitConvert /\ [][NextConvert]_vars

\* C33: whatever the number of entries, the team and the order of the
\* workers' loads and stores, no load of a 32-bit entry finds it
\* overwritten, every entry not yet loaded still holds its value, and when
\* the widening is over D[i] is S[i], zero-extended, for every i.
C33_WidenedInPlace ==
    /\ ~region.overwritten_read
    /\ \A i \in region.unread : region.mem[i] = region.S[i + 1]
    /\ region.pc = <<"done">> =>
          /\ region.unread = {}
          /\ \A i \in 0..(Len(region.S) - 1) :
                /\ region.mem[2 * i] = region.S[i + 1]
                /\ region.mem[2 * i + 1] = 0

\* two workers, each with entries widened and entries left, while the
\* lower half of the array is still to be read
C33_Witness ==
    /\ Len(region.pc) = 2
    /\ \A t \in {1, 2} :
          /\ region.pc[t] = "store"
          /\ region.workers[t].i > region.n + (t - 1) * 16
          /\ region.workers[t].i + 1 < region.workers[t].j
    /\ region.unread # {}

(***************************************************************************)
(* A session that parses one block after another.                          *)
(***************************************************************************)

\* the words [0, n) of the node array after libsais_ctx, the widening and
\* the build of lines 882-921 have written every one of them
\* a parse that leaves the offset field of a word that was a node before
OverwrittenMutant(old, new) ==
    [i \in DOMAIN new |->
        IF i \in DOMAIN old /\ i > 0 /\ LcpOf(new[i]) > 0
        THEN [new[i] EXCEPT !.offset = old[i].offset] ELSE new[i]]

Overwritten(old, new) == new

\* what a parse was preceded by: another block, stamped nodes, a parse that
\* the library failed
NoEarlier == [pc |-> <<>>, other_block |-> FALSE, stamped |-> FALSE, failed |-> FALSE]

\* the buffers the caller parses in turn
ReparseBlocks ==
    {Bytes(<<>>), Bytes(<<0, 1>>), Bytes(<<0, 0, 0, 0>>), Bytes(<<0, 1, 0, 1, 0>>),
     Bytes(<<0, 0, 0, 0, 0, 0>>), Bytes(<<0, 1, 2, 0, 1, 2>>)}

\* lines 882-921 on each of these buffers, for each session of InitReparse:
\* the library's answer and the trees built from it
Reparsed ==
    [B \in ReparseBlocks |->
        [ctx \in {esa_matchfinder_alloc_ctx(MaxBlockLen, ml[1], ml[2], num_threads) :
                     ml \in {<<2, 3>>, <<3, 4>>}, num_threads \in {1, 2}} |->
            [esa |-> Oracle(B), built |-> Builds(Oracle(B), BlockLen(B), ctx)]]]

\* esa_matchfinder_parse(mf, B, n) with the caller's next buffer B
ParseBlock(B, n) ==
    /\ mf # NullCtx
    /\ n >= 0
    /\ n <= mf.max_block_size
    /\ n = BlockLen(B)
    /\ call' = "parse"
    /\ block' = B
    /\ libsais' = Reparsed[B][mf].esa
    /\ built' = Reparsed[B][mf].built
    /\ \E b \in Reparsed[B][mf].built :
          /\ block_size' = n
          /\ sa_parent_link' = Overwritten(sa_parent_link, b.link)
          /\ plcp_leaf_link' = b.leaf
          /\ threads' = b.threads
          /\ position' = esa_matchfinder_set_position(0).position
          /\ prefetch' = esa_matchfinder_set_position(0).prefetch
          /\ result' = ESA_MATCHFINDER_NO_ERROR
          /\ parsed_link' = b.link
          /\ pass_log' = NewPass
          /\ last_pass' = NoPass
    /\ matches' = <<>>
    /\ best' = NoMatch
    /\ region' = [pc |-> <<>>,
                  other_block |-> block_size >= 0 /\ sa_parent_link # <<>> /\ block # B,
                  stamped |-> \E i \in DOMAIN sa_parent_link :
                                  /\ i > 0
                                  /\ LcpOf(sa_parent_link[i]) > 0
                                  /\ OffsetOf(sa_parent_link[i]) > 0,
                  failed |-> call = "parse" /\ result # ESA_MATCHFINDER_NO_ERROR]
    /\ UNCHANGED mf

InitReparse ==
    /\ InitWith(ReparseBlocks, {MaxBlockLen}, {<<2, 3>>, <<3, 4>>}, {1, 2})
    /\ region = NoEarlier

\* the API on one session; a parse the library fails (lines 882-904) is
\* followed by another parse
NextReparse ==
    \/ \E B \in ReparseBlocks : ParseBlock(B, BlockLen(B))
    \/ \E n \in {-1, mf.max_block_size + 1} : Parse(n)
    \/ \E sa_result \in {0, -1}, plcp_result \in {0, -1} :
           ParseOracleFails(BlockLen(block), sa_result, plcp_result)
    \/ sa_parent_link # <<>> /\ FindAllMatches
    \/ sa_parent_link # <<>> /\ FindBestMatch
    \/ sa_parent_link # <<>> /\ \E count \in 1..MaxBlockLen : Advance(count)
    \/ sa_parent_link # <<>> /\ \E target \in RewindTargets : Rewind(target)

SpecReparse == InitReparse /\ [][NextReparse]_vars

\* C34: after a parse that succeeded, whatever the session did before, the
\* node array, the leaf links and the workers' ranges are those a build of
\* the block from the library's answer gives, no node carries a stamp, the
\* position is 0 and the prefetch table is zero; and the match lists of the
\* scan that follows are those of a scan over the tree a single worker
\* builds from scratch.
C34_ParseRederivesState ==
    /\ (call = "parse" /\ result = ESA_MATCHFINDER_NO_ERROR) =>
          /\ \E b \in Builds(Oracle(block), block_size, mf) :
                /\ sa_parent_link = b.link
                /\ plcp_leaf_link = b.leaf
                /\ threads = b.threads
          /\ \A i \in DOMAIN sa_parent_link :
                (i > 0 /\ LcpOf(sa_parent_link[i]) > 0) => OffsetOf(sa_parent_link[i]) = 0
          /\ position = 0
          /\ prefetch = NoPrefetch
    /\ (pass_log.clean /\ Len(pass_log.lists) > 0) =>
          pass_log.lists
              = SubSeq(FullScan(SerialBuild.link, SerialBuild.leaf,
                                mf.min_match_length_minus_1, 0, block_size),
                       1, Len(pass_log.lists))

\* a parse that succeeded on a session that had parsed another block and
\* stamped nodes of its tree
C34_Witness ==
    /\ call = "parse"
    /\ result = ESA_MATCHFINDER_NO_ERROR
    /\ region.other_block
    /\ region.stamped
    /\ \E i \in DOMAIN sa_parent_link : i > 0 /\ LcpOf(sa_parent_link[i]) > 0

\* C35: on a session that has accepted no parse, block_size still -1 as
\* esa_matchfinder_alloc_ctx left it, esa_matchfinder_rewind returns
\* BAD_PARAMETER whatever the target and changes nothing of the session.
C35_RewindBeforeParseRejected ==
    [][(call' = "rewind" /\ block_size = -1) =>
          /\ result' = ESA_MATCHFINDER_BAD_PARAMETER
          /\ UNCHANGED <<mf, block_size, position, prefetch, sa_parent_link,
                         plcp_leaf_link, threads>>]_vars

\* a rewind on a session that has parsed nothing
C35_Witness ==
    /\ call = "rewind"
    /\ block_size = -1
    /\ mf # NullCtx
    /\ sa_parent_link = <<>>

(***************************************************************************)
(* The caller's array of find_all_matches, store by store.                 *)
(***************************************************************************)

\* a store one slot past next_match
StoreThroughMutant(buffer, next_match, record) == ((next_match + 1) :> record) @@ buffer

\* lines 1007-1018: the record written through next_match, kept or not;
\* buffer holds the slots of the caller's array written so far
StoreThrough(buffer, next_match, record) == (next_match :> record) @@ buffer

\* the body of the loop of lines 1002-1024 on w = [link, reference,
\* best_match, next_match, buffer, slots]; slots lists the slot of every store
FindAllStore(w, min_match_length, pos) ==
    LET interval == w.link[w.reference]
        match    == MatchOf(min_match_length, interval)
    IN  [link       |-> [w.link EXCEPT ![w.reference] = Stamp(interval, pos)],
         reference  |-> ParentOf(interval),
         best_match |-> match,
         next_match |-> w.next_match + (IF MatchGreater(match, w.best_match) THEN 1 ELSE 0),
         buffer     |-> StoreThrough(w.buffer, w.next_match, Record(match)),
         slots      |-> Append(w.slots, w.next_match)]

\* lines 997-1026, with the caller's array
RECURSIVE FindAllStores(_, _, _)
FindAllStores(w, min_match_length, pos) ==
    IF w.reference = 0 THEN w
    ELSE FindAllStores(FindAllStore(w, min_match_length, pos), min_match_length, pos)

\* esa_matchfinder_find_all_matches, the stores into the caller's array
\* followed in region
FindAllStored ==
    /\ CanConsume(1)
    /\ LET r == FindAllAt(sa_parent_link, plcp_leaf_link,
                          mf.min_match_length_minus_1, position)
       IN  /\ sa_parent_link' = r.link
           /\ matches' = r.matches
           /\ pass_log' = IF pass_log.clean
                          THEN [pass_log EXCEPT !.lists = Append(@, r.matches)]
                          ELSE pass_log
    /\ region' = [pc |-> <<>>,
                  stored |-> FindAllStores(
                      [link |-> sa_parent_link, reference |-> plcp_leaf_link[position],
                       best_match |-> [lo |-> ESA_MATCHFINDER_MAX_MATCH_LENGTH, hi |-> 0],
                       next_match |-> 0, buffer |-> <<>>, slots |-> <<>>],
                      mf.min_match_length_minus_1, position)]
    /\ position' = position + 1
    /\ prefetch' = PrefetchStep(prefetch, sa_parent_link, plcp_leaf_link,
                                position, block_size)
    /\ call' = "find_all_matches"
    /\ best' = NoMatch
    /\ UNCHANGED <<block, libsais, built, mf, block_size, plcp_leaf_link, threads,
                   result, parsed_link, last_pass>>

InitStores == InitWith(Blocks, {MaxBlockLen}, MatchLengths, {1}) /\ region = NoRegion

NextStores ==
    \/ \E n \in {-1, BlockLen(block)} : Parse(n)
    \/ FindAllStored
    \/ FindBestMatch
    \/ \E count \in 1..MaxBlockLen : Advance(count)
    \/ \E target \in RewindTargets : Rewind(target)

SpecStores == InitStores /\ [][NextStores]_vars

\* C36: a call of find_all_matches stores one record for each node on its
\* walk, every store goes to a slot of matches[0 .. MAX_MATCH_LENGTH - 1],
\* the records kept are the first slots, at most max_match_length -
\* min_match_length + 1 of them, and no slot past the one at the returned
\* end is written.
C36_StoresStayInCallerArray ==
    call = "find_all_matches" =>
        /\ Len(region.stored.slots) = Len(LeafPath(position - 1))
        /\ \A k \in 1..Len(region.stored.slots) :
              region.stored.slots[k] \in 0..(ESA_MATCHFINDER_MAX_MATCH_LENGTH - 1)
        /\ DOMAIN region.stored.buffer \subseteq 0..(ESA_MATCHFINDER_MAX_MATCH_LENGTH - 1)
        /\ region.stored.next_match = Len(matches)
        /\ \A i \in 1..Len(matches) : region.stored.buffer[i - 1] = matches[i]
        /\ Len(matches) <= mf.max_match_length - mf.min_match_length + 1
        /\ DOMAIN region.stored.buffer \subseteq 0..Len(matches)

\* a call that kept a record and left a record it did not keep in the slot
\* at the returned end
C36_Witness ==
    /\ call = "find_all_matches"
    /\ Len(matches) >= 1
    /\ Len(region.stored.slots) >= 3
    /\ Len(matches) \in DOMAIN region.stored.buffer

\* C37: in every session the create calls return, the lcp the sweep clamps
\* to is at most 2^MATCH_BITS - 1 and every node index and text position of
\* a block the session can parse is below 2^((64 - MATCH_BITS) / 2); so a
\* node word with the deepest lcp, the highest parent and any earlier stamp
\* keeps its lcp and parent fields when the last position is stamped into
\* it, and its match value has the length, at most max_match_length, in the
\* low half and the stamped position in the high half.
C37_FieldsNeverOverlap ==
    mf # NullCtx =>
        LET deepest == mf.max_match_length - mf.min_match_length_minus_1
            last    == IF mf.max_block_size > 0 THEN mf.max_block_size - 1 ELSE 0
        IN  /\ \A plcp \in {0, mf.min_match_length, mf.max_match_length,
                            mf.max_match_length + 1, ESA_MATCHFINDER_MAX_BLOCK_SIZE} :
                  ClampLcp(plcp, mf.min_match_length_minus_1, deepest)
                      <= 2 ^ ESA_MATCHFINDER_MATCH_BITS - 1
            /\ last < 2 ^ ((64 - ESA_MATCHFINDER_MATCH_BITS) \div 2)
            /\ \A lcp \in {1, deepest}, parent \in {0, last}, stamp \in {0, last},
                  pos \in {0, 1, last} :
                  LET w == Stamp([lcp |-> lcp, offset |-> stamp, parent |-> parent], pos)
                  IN  /\ w = [lcp |-> lcp, offset |-> pos, parent |-> parent]
                      /\ MatchOf(mf.min_match_length_minus_1, w).lo
                             = mf.min_match_length - 1 + lcp
                      /\ MatchOf(mf.min_match_length_minus_1, w).lo <= mf.max_match_length
                      /\ MatchOf(mf.min_match_length_minus_1, w).hi = pos

\* a session for blocks of ESA_MATCHFINDER_MAX_BLOCK_SIZE bytes whose clamp
\* is at 2^MATCH_BITS - 1
C37_Witness ==
    /\ mf # NullCtx
    /\ mf.max_block_size = ESA_MATCHFINDER_MAX_BLOCK_SIZE
    /\ mf.max_match_length - mf.min_match_length + 1 = 2 ^ ESA_MATCHFINDER_MATCH_BITS - 1

\* C38: in the sweep of a range, when the turn for suffix-array index i
\* starts the next free node index is at least i, the turn takes at most
\* one node index, and every word of the node array it writes is at an
\* index above i; the entries at i and below are still the suffix array.
C38_NodesStayAboveSweep ==
    (call = "parse" /\ result = ESA_MATCHFINDER_NO_ERROR) =>
        \A a, b \in RangeEdges :
            a < b =>
                \A i \in a..(b - 1) :
                    /\ SweptRange(b, i + 1).next >= i
                    /\ SweptRange(b, i).next \in {SweptRange(b, i + 1).next,
                                                  SweptRange(b, i + 1).next - 1}
                    /\ \A j \in DOMAIN SweptRange(b, i).link :
                          SweptRange(b, i).link[j] # SweptRange(b, i + 1).link[j] => j > i
                    /\ \A j \in 0..i :
                          SweptRange(b, i + 1).link[j] = WidenedSA(libsais.SA, block_size)[j]

\* a turn below the top of its range that starts with next free index i,
\* takes it, and a later turn that writes the word at that index
C38_Witness ==
    /\ call = "parse"
    /\ result = ESA_MATCHFINDER_NO_ERROR
    /\ \E a, b \in RangeEdges :
          /\ a < b
          /\ \E i \in a..(b - 2) :
                /\ SweptRange(b, i + 1).next = i
                /\ SweptRange(b, i).next = i - 1
                /\ LcpOf(SweptRange(b, a).link[i]) > 0

(***************************************************************************)
(* Two sessions on the same parsed block that differ in their prefetch     *)
(* tables only, taken through the same calls.                              *)
(***************************************************************************)

\* calls that stamp the node their prefetch row holds at [6] as well
SessionStepMutant(s, op, count) ==
    LET hinted == s.prefetch[s.position % prefetch_distance][6]
        link == [s.link EXCEPT ![hinted] = Stamp(@, s.position)]
    IN  IF op = "find_all_matches"
        THEN [link |-> FindAllAt(link, plcp_leaf_link, mf.min_match_length_minus_1,
                                 s.position).link,
              matches |-> FindAllAt(link, plcp_leaf_link, mf.min_match_length_minus_1,
                                    s.position).matches,
              best |-> NoMatch,
              position |-> s.position + 1,
              prefetch |-> PrefetchStep(s.prefetch, s.link, plcp_leaf_link, s.position,
                                        block_size)]
        ELSE IF op = "find_best_match"
        THEN [link |-> FindBestAt(link, plcp_leaf_link, mf.min_match_length_minus_1,
                                  s.position).link,
              matches |-> <<>>,
              best |-> FindBestAt(link, plcp_leaf_link, mf.min_match_length_minus_1,
                                  s.position).best,
              position |-> s.position + 1,
              prefetch |-> PrefetchStep(s.prefetch, s.link, plcp_leaf_link, s.position,
                                        block_size)]
        ELSE [link |-> AdvanceLoop(link, plcp_leaf_link, s.position, s.position + count),
              matches |-> <<>>,
              best |-> NoMatch,
              position |-> s.position + count,
              prefetch |-> PrefetchLoop(s.prefetch, s.link, plcp_leaf_link, s.position,
                                        s.position + count, block_size)]

\* esa_matchfinder_find_all_matches, esa_matchfinder_find_best_match and
\* esa_matchfinder_advance(count) on the session s = [link, position,
\* prefetch, matches, best] of the parsed block
SessionStep(s, op, count) ==
    IF op = "find_all_matches"
    THEN [link |-> FindAllAt(s.link, plcp_leaf_link, mf.min_match_length_minus_1,
                             s.position).link,
          matches |-> FindAllAt(s.link, plcp_leaf_link, mf.min_match_length_minus_1,
                                s.position).matches,
          best |-> NoMatch,
          position |-> s.position + 1,
          prefetch |-> PrefetchStep(s.prefetch, s.link, plcp_leaf_link, s.position,
                                    block_size)]
    ELSE IF op = "find_best_match"
    THEN [link |-> FindBestAt(s.link, plcp_leaf_link, mf.min_match_length_minus_1,
                              s.position).link,
          matches |-> <<>>,
          best |-> FindBestAt(s.link, plcp_leaf_link, mf.min_match_length_minus_1,
                              s.position).best,
          position |-> s.position + 1,
          prefetch |-> PrefetchStep(s.prefetch, s.link, plcp_leaf_link, s.position,
                                    block_size)]
    ELSE [link |-> AdvanceLoop(s.link, plcp_leaf_link, s.position, s.position + count),
          matches |-> <<>>,
          best |-> NoMatch,
          position |-> s.position + count,
          prefetch |-> PrefetchLoop(s.prefetch, s.link, plcp_leaf_link, s.position,
                                    s.position + count, block_size)]

\* prefetch tables that hold indices of the node array of n words
TwinTables(n) ==
    {[row \in 0..(prefetch_distance - 1) |-> [k \in 0..7 |-> (v + row + k) % n]] :
        v \in IF n >= 2 THEN {1, n - 1} ELSE {}}

\* esa_matchfinder_parse on the session, and a second session with the same
\* tree whose prefetch table holds other indices
TwinParse ==
    /\ region = NoRegion
    /\ \E b \in built :
          /\ block_size' = BlockLen(block)
          /\ sa_parent_link' = b.link
          /\ plcp_leaf_link' = b.leaf
          /\ threads' = b.threads
          /\ parsed_link' = b.link
          /\ \E table \in TwinTables(BlockLen(block)) :
                region' = [pc |-> <<>>,
                           twin |-> [link |-> b.link, matches |-> <<>>, best |-> NoMatch,
                                     position |-> 0, prefetch |-> table]]
    /\ position' = esa_matchfinder_set_position(0).position
    /\ prefetch' = esa_matchfinder_set_position(0).prefetch
    /\ call' = "parse"
    /\ result' = ESA_MATCHFINDER_NO_ERROR
    /\ matches' = <<>>
    /\ best' = NoMatch
    /\ pass_log' = BrokenPass
    /\ last_pass' = NoPass
    /\ UNCHANGED <<block, libsais, built, mf>>

\* the same call on both sessions
TwinCall(op, count) ==
    /\ region # NoRegion
    /\ CanConsume(count)
    /\ op = "advance" \/ count = 1
    /\ LET mine == SessionStep([link |-> sa_parent_link, matches |-> matches,
                                best |-> best, position |-> position,
                                prefetch |-> prefetch], op, count)
       IN  /\ sa_parent_link' = mine.link
           /\ matches' = mine.matches
           /\ best' = mine.best
           /\ position' = mine.position
           /\ prefetch' = mine.prefetch
    /\ region' = [region EXCEPT !.twin = SessionStep(region.twin, op, count)]
    /\ call' = op
    /\ UNCHANGED <<block, libsais, built, mf, block_size, plcp_leaf_link, threads,
                   result, parsed_link, pass_log, last_pass>>

InitTwin == InitWith(Blocks, {MaxBlockLen}, {<<2, 2>>, <<2, 3>>, <<3, 4>>}, {1}) /\ region = NoRegion

NextTwin ==
    \/ TwinParse
    \/ \E op \in {"find_all_matches", "find_best_match", "advance"},
          count \in 1..MaxBlockLen : TwinCall(op, count)

SpecTwin == InitTwin /\ [][NextTwin]_vars

\* C39: two sessions that have the same node array, leaf links and position
\* and differ in the indices their prefetch tables hold return the same
\* matches to every find_all_matches and find_best_match call and have the
\* same node array and position after every call, advance included.
C39_PrefetchTableIsNotAnInput ==
    call \in {"find_all_matches", "find_best_match", "advance"} =>
        /\ region.twin.matches = matches
        /\ region.twin.best = best
        /\ region.twin.link = sa_parent_link
        /\ region.twin.position = position

\* find_all_matches has returned records while the two tables differ
C39_Witness ==
    /\ call = "find_all_matches"
    /\ position >= 2
    /\ matches # <<>>
    /\ region.twin.prefetch # prefetch

====
